---- MODULE Spec2Model ----
(***************************************************************************)
(* A model of the lesson-plan generator: the positional calendar parser    *)
(* (row clustering, header columns, content extraction), the spiral-review *)
(* selector, the fuzzy game matcher, the mind-map target lookup, the       *)
(* template substitution, and the application state they are used from.    *)
(*                                                                         *)
(* Text is a sequence of one-character strings, so that lower-casing,      *)
(* substring tests, splitting and replacement are computed and not         *)
(* assumed.  Coordinates are kept in half pixels (an OCR box has integer   *)
(* pixel coordinates, so every midpoint the code takes is exact).          *)
(***************************************************************************)
EXTENDS Integers, Sequences, FiniteSets, TLC

VARIABLES
    ocrWords,        \* CalendarTableParser: the word list handed to the parser
    calendar,        \* CalendarTableParser: its stages and its result, or NotRun
    ocrText,         \* CalendarTableParser of lib/parsers.ts: the text handed to the parser
    textCalendar,    \* CalendarTableParser of lib/parsers.ts: its result, or NotRun
    list,            \* GetSpiralReviewItems: the review list
    currentIndex,    \* GetSpiralReviewItems: the cursor passed in
    review,          \* GetSpiralReviewItems: the returned object, or NotRun
    gameText,        \* findFuzzyGame: dayData.game
    gameNames,       \* findFuzzyGame: Object.keys(files.gamesList), in iteration order
    gameMatch,       \* findFuzzyGame: the returned name, or NotRun
    mindMapContent,  \* MindMapParser: the text of the uploaded mind map
    mindMap,         \* MindMapParser: the entries of the returned data, or NotRun
    weekLabel,       \* mindMapMatch: files.calendar.week
    targets,         \* mindMapMatch: the day asked for, the match and the targets, or NotRun
    templateText,    \* TemplateProcessor: the decoded template
    templateData,    \* TemplateProcessor: Object.entries(data), in iteration order
    rendered,        \* TemplateProcessor: the result for the template, or NotRun
    renderedAgain,   \* TemplateProcessor: the result for the text of rendered, or NotRun
    files,           \* App: the five uploaded documents
    apiKey,          \* App: config.apiKey
    spiralIndex,     \* App: the review cursor
    configOpen,      \* App: whether the settings dialog is open
    appended,        \* App: the texts the last step appended to messages
    inFlight,        \* App: the handler runs that wait for the OCR or the AI call
    savedSetNames,   \* App: the names of the saved document sets
    isHydrated,      \* App: isHydrated.current
    hydration,       \* App: the key or call initPersistence waits for, or "done"
    lastStarted,     \* history: the image of the calendar upload or paste started last
    idb,             \* storage: the key-value store of the browser
    returned,        \* storage: what the last storage function did, or NotRun
    configProvider,  \* AdvancedLessonPlanSynthesizer: config.provider
    responseData,    \* AdvancedLessonPlanSynthesizer: the body of the provider's answer
    synthData        \* AdvancedLessonPlanSynthesizer: the value or the error, or NotRun

calendarVars == <<ocrWords, calendar, ocrText, textCalendar>>

reviewVars == <<list, currentIndex, review>>

gameVars == <<gameText, gameNames, gameMatch>>

mindMapVars == <<mindMapContent, mindMap, weekLabel, targets>>

templateVars == <<templateText, templateData, rendered, renderedAgain>>

storageVars == <<idb, returned>>

aiVars == <<configProvider, responseData, synthData>>

hydrationVars == <<isHydrated, hydration>>

sessionVars ==
    <<files, apiKey, spiralIndex, configOpen, appended, inFlight, savedSetNames, hydrationVars,
      lastStarted>>

appVars == <<sessionVars, storageVars, aiVars>>

vars == <<calendarVars, reviewVars, gameVars, mindMapVars, templateVars, appVars>>

\* the value of a result variable before the operation has run
NotRun == [run |-> FALSE]

(***************************************************************************)
(* Text                                                                    *)
(***************************************************************************)
UpperLetters ==
    <<"A", "B", "C", "D", "E", "F", "G", "H", "I", "J", "K", "L", "M",
      "N", "O", "P", "Q", "R", "S", "T", "U", "V", "W", "X", "Y", "Z">>

LowerLetters ==
    <<"a", "b", "c", "d", "e", "f", "g", "h", "i", "j", "k", "l", "m",
      "n", "o", "p", "q", "r", "s", "t", "u", "v", "w", "x", "y", "z">>

Digits == {"0", "1", "2", "3", "4", "5", "6", "7", "8", "9"}

\* the lower-case letter of each upper-case letter, and the reverse
ToLowerMap == [c \in {UpperLetters[i] : i \in 1..26} |->
                  LowerLetters[CHOOSE i \in 1..26 : UpperLetters[i] = c]]

ToUpperMap == [c \in {LowerLetters[i] : i \in 1..26} |->
                  UpperLetters[CHOOSE i \in 1..26 : LowerLetters[i] = c]]

IsLower(c) == c \in DOMAIN ToUpperMap

IsUpper(c) == c \in DOMAIN ToLowerMap

ToLowerChar(c) == IF IsUpper(c) THEN ToLowerMap[c] ELSE c

ToUpperChar(c) == IF IsLower(c) THEN ToUpperMap[c] ELSE c

\* String.prototype.toLowerCase / toUpperCase
ToLowerCase(s) == [i \in 1..Len(s) |-> ToLowerChar(s[i])]

ToUpperCase(s) == [i \in 1..Len(s) |-> ToUpperChar(s[i])]

\* s.indexOf(p, from) with 0-based positions; -1 when p does not occur
IndexOfFrom(s, p, from) ==
    LET starts == from..(Len(s) - Len(p))
        At(i) == \A k \in 1..Len(p) : s[i + k] = p[k]
    IN  IF \E i \in starts : At(i)
        THEN CHOOSE i \in starts : At(i) /\ \A j \in from..(i - 1) : ~At(j)
        ELSE -1

IndexOf(s, p) == IndexOfFrom(s, p, 0)

\* String.prototype.includes
Includes(s, p) == IndexOf(s, p) # -1

\* s.replace(/[^a-z]/g, '')
KeepLower(s) == SelectSeq(s, IsLower)

IsSpace(c) == c \in {" ", "\t", "\n"}

RECURSIVE TrimStart(_)
TrimStart(s) ==
    IF s # <<>> /\ IsSpace(Head(s)) THEN TrimStart(Tail(s)) ELSE s

RECURSIVE TrimEnd(_)
TrimEnd(s) ==
    IF s # <<>> /\ IsSpace(s[Len(s)]) THEN TrimEnd(SubSeq(s, 1, Len(s) - 1)) ELSE s

\* String.prototype.trim
Trim(s) == TrimEnd(TrimStart(s))

\* Array.prototype.join over texts
RECURSIVE Join(_, _)
Join(texts, sep) ==
    IF texts = <<>> THEN <<>>
    ELSE IF Len(texts) = 1 THEN texts[1]
    ELSE texts[1] \o sep \o Join(Tail(texts), sep)

\* Array.prototype.sort with comparator key(a) - key(b), a stable sort; keys[i] is
\* the key of s[i]
SortByKeys(s, keys) ==
    LET Rank(i) ==
            1 + Cardinality({j \in 1..Len(s) :
                    \/ keys[j] < keys[i]
                    \/ keys[j] = keys[i] /\ j < i})
    IN  [p \in 1..Len(s) |-> s[CHOOSE i \in 1..Len(s) : Rank(i) = p]]

\* Array.prototype.flatMap over a sequence of sequences
RECURSIVE Flatten(_)
Flatten(ss) == IF ss = <<>> THEN <<>> ELSE Head(ss) \o Flatten(Tail(ss))

Min(a, b) == IF a < b THEN a ELSE b

Max(a, b) == IF a > b THEN a ELSE b

\* n pixels in the model's half-pixel unit
Px(n) == 2 * n

\* (a + b) / 2 of two pixel coordinates, exact in half pixels
Mid(a, b) == (a + b) \div 2

(***************************************************************************)
(* CalendarTableParser over positioned words                               *)
(***************************************************************************)
days ==
    << <<"s", "u", "n", "d", "a", "y">>,
       <<"m", "o", "n", "d", "a", "y">>,
       <<"t", "u", "e", "s", "d", "a", "y">>,
       <<"w", "e", "d", "n", "e", "s", "d", "a", "y">>,
       <<"t", "h", "u", "r", "s", "d", "a", "y">>,
       <<"f", "r", "i", "d", "a", "y">>,
       <<"s", "a", "t", "u", "r", "d", "a", "y">> >>

\* the keys of `abbreviations`, in the order of `days`
abbreviations == [i \in 1..7 |-> SubSeq(days[i], 1, 3)]

SongText == <<"s", "o", "n", "g">>

SongOfTheWeek ==
    <<"S", "o", "n", "g", " ", "o", "f", " ", "t", "h", "e", " ", "W", "e", "e", "k">>

Vocabulary == <<"V", "o", "c", "a", "b", "u", "l", "a", "r", "y">>

PastedContent ==
    <<"P", "a", "s", "t", "e", "d", " ", "C", "o", "n", "t", "e", "n", "t">>

\* the 15 pixels by which a column is widened when a header word is matched to it
ColumnTolerance == 15

\* the 10000 pixels that close the last column
PageRight == 10000

\* word.text.toLowerCase().replace(/[^a-z]/g, '')
Clean(word) == KeepLower(ToLowerCase(word.text))

\* days.find(d => clean === d) || abbreviations[clean]: the day, or <<>>
DayMatch(clean) ==
    IF \E i \in 1..7 : days[i] = clean
    THEN clean
    ELSE IF \E i \in 1..7 : abbreviations[i] = clean
    THEN days[CHOOSE i \in 1..7 : abbreviations[i] = clean]
    ELSE <<>>

\* ocrWords.sort((a, b) => a.bbox.y0 - b.bbox.y0)
SortByY0(words) == SortByKeys(words, [i \in 1..Len(words) |-> words[i].bbox.y0])

\* r.words.sort((a, b) => a.bbox.x0 - b.bbox.x0)
SortByX0(words) == SortByKeys(words, [i \in 1..Len(words) |-> words[i].bbox.x0])

\* rows.find(r => midWord >= r.y0 && midWord <= r.y1): its index, or 0
MatchedRow(rows, word) ==
    LET midWord == Mid(word.bbox.y0, word.bbox.y1)
        hits == {i \in 1..Len(rows) : midWord >= rows[i].y0 /\ midWord <= rows[i].y1}
    IN  IF hits = {} THEN 0 ELSE CHOOSE i \in hits : \A j \in hits : i <= j

\* one step of the forEach that clusters the words into rows
AddToRows(rows, word) ==
    LET m == MatchedRow(rows, word)
    IN  IF m = 0
        THEN Append(rows, [words |-> <<word>>, y0 |-> word.bbox.y0, y1 |-> word.bbox.y1])
        ELSE [rows EXCEPT ![m] =
                [words |-> Append(@.words, word),
                 y0 |-> Min(@.y0, word.bbox.y0),
                 y1 |-> Max(@.y1, word.bbox.y1)]]

RECURSIVE ClusterFrom(_, _)
ClusterFrom(rows, words) ==
    IF words = <<>> THEN rows
    ELSE ClusterFrom(AddToRows(rows, Head(words)), Tail(words))

\* ClusterRows without the sort by y0 and without the sort of a row's words
ClusterRowsUnsorted(words) == ClusterFrom(<<>>, words)

\* step 1: the rows, each row's words sorted by x0
ClusterRows(words) ==
    LET clustered == ClusterFrom(<<>>, SortByY0(words))
    IN  [i \in 1..Len(clustered) |->
            [clustered[i] EXCEPT !.words = SortByX0(@)]]

\* step 2: the indices of the rows whose text contains a day name or abbreviation
HeaderRowIndices(rows) ==
    LET Text(r) == Join([i \in 1..Len(r.words) |-> ToLowerCase(r.words[i].text)], <<" ">>)
        HasDay(r) ==
            \/ \E i \in 1..7 : Includes(Text(r), days[i])
            \/ \E i \in 1..7 : Includes(Text(r), abbreviations[i])
    IN  {i \in 1..Len(rows) : HasDay(rows[i])}

IsWordChar(c) == IsLower(c) \/ IsUpper(c) \/ c \in Digits \/ c = "_"

WeekDigits == {"1", "2", "3", "4", "5", "6", "7", "8"}

\* the end (exclusive, 0-based) of the white space that starts at position i
RECURSIVE SkipSpace(_, _)
SkipSpace(s, i) ==
    IF i < Len(s) /\ IsSpace(s[i + 1]) THEN SkipSpace(s, i + 1) ELSE i

\* allText.match(/week\s*([1-8])\b/i): the digit captured by the first match, or <<>>
WeekWordMatch(allText) ==
    LET lower == ToLowerCase(allText)
        DigitAt(i) == SkipSpace(allText, i + 4)
        Matches(i) ==
            /\ SubSeq(lower, i + 1, i + 4) = <<"w", "e", "e", "k">>
            /\ DigitAt(i) < Len(allText)
            /\ allText[DigitAt(i) + 1] \in WeekDigits
            /\ \/ DigitAt(i) + 1 = Len(allText)
               \/ ~IsWordChar(allText[DigitAt(i) + 2])
        hits == {i \in 0..(Len(allText) - 4) : Matches(i)}
    IN  IF hits = {} THEN <<>>
        ELSE LET first == CHOOSE i \in hits : \A j \in hits : i <= j
             IN  <<allText[DigitAt(first) + 1]>>

\* /\b[1-8]\b/.test(text)
HasBareWeekDigit(text) ==
    \E i \in 1..Len(text) :
        /\ text[i] \in WeekDigits
        /\ (i = 1 \/ ~IsWordChar(text[i - 1]))
        /\ (i = Len(text) \/ ~IsWordChar(text[i + 1]))

WeekPrefix == <<"W", "E", "E", "K", " ">>

\* step 3: the week label; `sorted` is ocrWords after the in-place sort of step 1
ExtractWeek(sorted) ==
    LET allText == Join([i \in 1..Len(sorted) |-> sorted[i].text], <<" ">>)
        weekWordMatch == WeekWordMatch(allText)
        weekWs == {i \in 1..Len(sorted) :
                      Includes(ToLowerCase(sorted[i].text), <<"w", "e", "e", "k">>)}
    IN  IF weekWordMatch # <<>> THEN WeekPrefix \o weekWordMatch
        ELSE IF weekWs = {} THEN <<>>
        ELSE LET idx == (CHOOSE i \in weekWs : \A j \in weekWs : i <= j) - 1
                 near == SubSeq(sorted, Max(0, idx - 2) + 1, Min(idx + 5, Len(sorted)))
                 nums == {i \in 1..Len(near) : HasBareWeekDigit(near[i].text)}
             IN  IF nums = {} THEN <<>>
                 ELSE WeekPrefix \o near[CHOOSE i \in nums : \A j \in nums : i <= j].text

\* abbreviations[clean] also finds Object.prototype.constructor, which is truthy
NativeConstructor ==
    <<"f", "u", "n", "c", "t", "i", "o", "n", " ", "O", "b", "j", "e", "c", "t", "(", ")">>

ColumnDay(clean) ==
    IF DayMatch(clean) # <<>> THEN DayMatch(clean)
    ELSE IF clean = <<"c", "o", "n", "s", "t", "r", "u", "c", "t", "o", "r">>
    THEN NativeConstructor
    ELSE <<>>

\* step 4, first forEach: a header word opens a day column or the song column
AddColumn(cols, word) ==
    LET clean == Clean(word)
        dayMatch == ColumnDay(clean)
    IN  IF dayMatch # <<>> /\ ~\E i \in 1..Len(cols) : cols[i].day = dayMatch
        THEN Append(cols, [day |-> dayMatch, xMin |-> word.bbox.x0, xMax |-> word.bbox.x1,
                           subject |-> <<>>, isSong |-> FALSE])
        ELSE IF Includes(clean, SongText) /\ ~\E i \in 1..Len(cols) : cols[i].isSong
        THEN Append(cols, [day |-> SongText, xMin |-> word.bbox.x0, xMax |-> word.bbox.x1,
                           subject |-> <<>>, isSong |-> TRUE])
        ELSE cols

RECURSIVE AddColumns(_, _)
AddColumns(cols, headerWords) ==
    IF headerWords = <<>> THEN cols
    ELSE AddColumns(AddColumn(cols, Head(headerWords)), Tail(headerWords))

\* the columns after cols.sort((a, b) => a.xMin - b.xMin)
SortedColumns(headerWords) ==
    LET cols == AddColumns(<<>>, headerWords)
    IN  SortByKeys(cols, [i \in 1..Len(cols) |-> cols[i].xMin])

IsDayOrSong(word) ==
    \/ ColumnDay(Clean(word)) # <<>>
    \/ Includes(Clean(word), SongText)

\* cols.find(near) || cols.find((c, i) => mid < (cols[i + 1]?.xMin || 10000)): index or 0
TargetColumn(cols, mid) ==
    LET near == {i \in 1..Len(cols) :
                    /\ mid >= cols[i].xMin - Px(ColumnTolerance)
                    /\ mid <= cols[i].xMax + Px(ColumnTolerance)}
        NextXMin(i) ==
            IF i + 1 <= Len(cols) /\ cols[i + 1].xMin # 0
            THEN cols[i + 1].xMin
            ELSE Px(PageRight)
        left == {i \in 1..Len(cols) : mid < NextXMin(i)}
    IN  IF near # {} THEN CHOOSE i \in near : \A j \in near : i <= j
        ELSE IF left # {} THEN CHOOSE i \in left : \A j \in left : i <= j
        ELSE 0

\* AttachSubject without the test word.text.length > 2
AttachSubjectAnyLength(cols, word) ==
    LET target == TargetColumn(cols, Mid(word.bbox.x0, word.bbox.x1))
    IN  IF ~IsDayOrSong(word) /\ target # 0 /\ ~cols[target].isSong
        THEN [cols EXCEPT ![target] =
                [@ EXCEPT !.subject = (IF @ # <<>> THEN @ \o <<" ">> ELSE @) \o word.text,
                          !.xMin = Min(@, word.bbox.x0),
                          !.xMax = Max(@, word.bbox.x1)]]
        ELSE cols

\* second forEach: a header word that is no day and no song widens its column
AttachSubject(cols, word) ==
    LET target == TargetColumn(cols, Mid(word.bbox.x0, word.bbox.x1))
    IN  IF ~IsDayOrSong(word) /\ Len(word.text) > 2 /\ target # 0 /\ ~cols[target].isSong
        THEN [cols EXCEPT ![target] =
                [@ EXCEPT !.subject = (IF @ # <<>> THEN @ \o <<" ">> ELSE @) \o word.text,
                          !.xMin = Min(@, word.bbox.x0),
                          !.xMax = Max(@, word.bbox.x1)]]
        ELSE cols

RECURSIVE AttachSubjects(_, _)
AttachSubjects(cols, headerWords) ==
    IF headerWords = <<>> THEN cols
    ELSE AttachSubjects(AttachSubject(cols, Head(headerWords)), Tail(headerWords))

\* the closing loop with each shared boundary written to the left column only
CloseRightEdges(cols) ==
    [i \in 1..Len(cols) |->
        [cols[i] EXCEPT !.xMax = IF i < Len(cols)
                                 THEN Mid(cols[i].xMax, cols[i + 1].xMin)
                                 ELSE Px(PageRight)]]

\* the for loop that closes the columns: iteration i (1-based) and the ones after it
RECURSIVE CloseFrom(_, _)
CloseFrom(cols, i) ==
    IF i > Len(cols) THEN cols
    ELSE IF i < Len(cols)
    THEN LET m == Mid(cols[i].xMax, cols[i + 1].xMin)
         IN  CloseFrom([cols EXCEPT ![i].xMax = m, ![i + 1].xMin = m], i + 1)
    ELSE [cols EXCEPT ![i].xMax = Px(PageRight)]

CloseColumns(cols) == CloseFrom(cols, 1)

\* w is kept by the filter of column col
InColumn(col, w) ==
    LET wMid == Mid(w.bbox.x0, w.bbox.x1)
    IN  wMid >= col.xMin /\ wMid <= col.xMax

\* step 5: the words of the content rows that the filter of column col keeps
ColumnWords(col, contentRows) ==
    Flatten([r \in 1..Len(contentRows) |->
                SelectSeq(contentRows[r].words, LAMBDA w : InColumn(col, w))])

ColumnContent(col, contentRows) ==
    LET ws == ColumnWords(col, contentRows)
    IN  Join([i \in 1..Len(ws) |-> ws[i].text], <<" ">>)

\* col.subject.replace(/[-|:\[\]]/g, '').trim() || "Vocabulary"
ColumnSubject(col) ==
    LET stripped == Trim(SelectSeq(col.subject, LAMBDA c : c \notin {"-", "|", ":", "[", "]"}))
    IN  IF stripped = <<>> THEN Vocabulary ELSE stripped

\* the object returned on the two early returns, with the rows built so far
EarlyReturn(rows) ==
    [rows |-> rows, headerFound |-> FALSE, headerWords |-> <<>>, sortedCols |-> <<>>,
     widenedCols |-> <<>>, cols |-> <<>>, contentRows |-> <<>>, colWords |-> <<>>,
     data |-> <<>>, song |-> <<>>, week |-> <<>>]

\* calendarData after the forEach over the closed columns (a later column of a day wins)
ColumnData(cols, contentRows) ==
    LET dayCols == {i \in 1..Len(cols) : ~cols[i].isSong}
        Last(d) == CHOOSE i \in dayCols :
                      /\ cols[i].day = d
                      /\ \A j \in dayCols : cols[j].day = d => j <= i
    IN  [d \in {cols[i].day : i \in dayCols} |->
            [subject |-> ColumnSubject(cols[Last(d)]),
             content |-> ColumnContent(cols[Last(d)], contentRows),
             game |-> ColumnContent(cols[Last(d)], contentRows)]]

\* extractedSong after the forEach over the closed columns
ColumnSong(cols, contentRows) ==
    LET songs == {i \in 1..Len(cols) :
                     cols[i].isSong /\ Len(ColumnContent(cols[i], contentRows)) > 3}
    IN  IF songs = {} THEN SongOfTheWeek
        ELSE ColumnContent(cols[CHOOSE i \in songs : \A j \in songs : j <= i], contentRows)

\* the two fallbacks that fill calendarData when no column gave a day
FallbackData(data, allText) ==
    LET named == {i \in 1..7 : Includes(ToLowerCase(allText), days[i])}
        pasted == [subject |-> PastedContent, content |-> allText, game |-> allText]
    IN  IF DOMAIN data # {} THEN data
        ELSE IF named # {} THEN [d \in {days[i] : i \in named} |-> pasted]
        ELSE [d \in {days[2]} |-> pasted]

\* the returned object (data, song, week), with the stages of the parse kept beside it
CalendarTableParser(words) ==
    LET sorted == SortByY0(words)
        rows == ClusterRows(words)
        headerRowIndices == HeaderRowIndices(rows)
    IN  IF words = <<>> THEN EarlyReturn(<<>>)
        ELSE IF headerRowIndices = {} THEN EarlyReturn(rows)
        ELSE
            LET firstHeader == CHOOSE i \in headerRowIndices : \A j \in headerRowIndices : i <= j
                lastHeader == CHOOSE i \in headerRowIndices : \A j \in headerRowIndices : j <= i
                headerWords ==
                    Flatten([i \in 1..(lastHeader - firstHeader + 1) |->
                                rows[firstHeader + i - 1].words])
                allText == Join([i \in 1..Len(sorted) |-> sorted[i].text], <<" ">>)
                sortedCols == SortedColumns(headerWords)
                widenedCols == AttachSubjects(sortedCols, headerWords)
                cols == CloseColumns(widenedCols)
                contentRows == SubSeq(rows, lastHeader + 1, Len(rows))
            IN  [rows |-> rows, headerFound |-> TRUE, headerWords |-> headerWords,
                 sortedCols |-> sortedCols, widenedCols |-> widenedCols, cols |-> cols,
                 contentRows |-> contentRows,
                 colWords |-> [i \in 1..Len(cols) |-> ColumnWords(cols[i], contentRows)],
                 data |-> FallbackData(ColumnData(cols, contentRows), allText),
                 song |-> ColumnSong(cols, contentRows),
                 week |-> ExtractWeek(sorted)]

(***************************************************************************)
(* GetSpiralReviewItems                                                    *)
(***************************************************************************)
NoItems ==
    <<"N", "o", " ", "r", "e", "v", "i", "e", "w", " ", "i", "t", "e", "m", "s", " ",
      "a", "v", "a", "i", "l", "a", "b", "l", "e", ".">>

\* TopCount over the newest half of the list instead of its newest fifth
TopCountHalf(l) == (Len(l) + 1) \div 2

\* Math.ceil(list.length * 0.2)
TopCount(l) == (Len(l) + 4) \div 5

\* BottomIndex counted from the top of the list instead of from its bottom
BottomIndexFromTop(l, index) == index % Len(l)

\* list.length - 1 - (currentIndex % list.length), 0-based
BottomIndex(l, index) == Len(l) - 1 - (index % Len(l))

\* the object returned when Math.random() makes recentIndex (0-based) the draw
GetSpiralReviewItems(l, index, recentIndex) ==
    IF Len(l) = 0
    THEN [sentence |-> NoItems, nextIndex |-> 0]
    ELSE [oldest |-> l[BottomIndex(l, index) + 1],
          recent |-> l[recentIndex + 1],
          nextIndex |-> index + 1]

\* the values Math.floor(Math.random() * topCount) can take
RecentIndices(l) == 0..(TopCount(l) - 1)

(***************************************************************************)
(* Text documents: SpiralReviewParser, GamesListParser, MindMapParser      *)
(***************************************************************************)
\* String.prototype.split on a one-character separator
RECURSIVE Split(_, _)
Split(s, sep) ==
    LET i == IndexOf(s, <<sep>>)
    IN  IF i = -1 THEN <<s>>
        ELSE <<SubSeq(s, 1, i)>> \o Split(SubSeq(s, i + 2, Len(s)), sep)

\* the start (0-based) of the first white space of s at or after i, or Len(s)
RECURSIVE FindSpace(_, _)
FindSpace(s, i) ==
    IF i < Len(s) /\ ~IsSpace(s[i + 1]) THEN FindSpace(s, i + 1) ELSE i

\* s.split(/\s+/)
RECURSIVE SplitWhitespace(_)
SplitWhitespace(s) ==
    LET i == FindSpace(s, 0)
    IN  IF i = Len(s) THEN <<s>>
        ELSE <<SubSeq(s, 1, i)>> \o SplitWhitespace(SubSeq(s, SkipSpace(s, i) + 1, Len(s)))

\* content.split('\n').filter(line => line.trim() !== '')
NonBlankLines(content) ==
    SelectSeq(Split(content, "\n"), LAMBDA line : Trim(line) # <<>>)

SpiralReviewParser(content) == NonBlankLines(content)

DigitValue ==
    [c \in Digits |->
        CASE c = "0" -> 0 [] c = "1" -> 1 [] c = "2" -> 2 [] c = "3" -> 3 [] c = "4" -> 4
          [] c = "5" -> 5 [] c = "6" -> 6 [] c = "7" -> 7 [] c = "8" -> 8 [] c = "9" -> 9]

\* a property key that is an array index: the canonical decimal form of an integer
\* (keys of this size are far below 2^32 - 1)
IsArrayIndex(key) ==
    /\ key # <<>>
    /\ \A i \in 1..Len(key) : key[i] \in Digits
    /\ (Len(key) = 1 \/ key[1] # "0")

RECURSIVE IndexValue(_)
IndexValue(key) ==
    IF key = <<>> THEN 0
    ELSE 10 * IndexValue(SubSeq(key, 1, Len(key) - 1)) + DigitValue[key[Len(key)]]

\* object[key] = value on an object held as its entries in iteration order: array
\* indices first, in ascending order, then the other keys in insertion order
Put(entries, key, value) ==
    IF \E i \in 1..Len(entries) : entries[i].key = key
    THEN [i \in 1..Len(entries) |->
            IF entries[i].key = key THEN [key |-> key, value |-> value] ELSE entries[i]]
    ELSE IF IsArrayIndex(key)
    THEN LET before == SelectSeq(entries,
                        LAMBDA e : IsArrayIndex(e.key) /\ IndexValue(e.key) < IndexValue(key))
         IN  before \o <<[key |-> key, value |-> value]>>
                \o SubSeq(entries, Len(before) + 1, Len(entries))
    ELSE Append(entries, [key |-> key, value |-> value])

\* the forEach body of GamesListParser
GamesListLine(games, line) ==
    IF Includes(line, <<":">>)
    THEN LET parts == Split(line, ":")
         IN  Put(games, ToLowerCase(Trim(parts[1])), Trim(parts[2]))
    ELSE games

RECURSIVE GamesListFrom(_, _)
GamesListFrom(games, lines) ==
    IF lines = <<>> THEN games
    ELSE GamesListFrom(GamesListLine(games, Head(lines)), Tail(lines))

GamesListParser(content) == GamesListFrom(<<>>, NonBlankLines(content))

MonthNames ==
    << <<"j", "a", "n", "u", "a", "r", "y">>, <<"f", "e", "b", "r", "u", "a", "r", "y">>,
       <<"m", "a", "r", "c", "h">>, <<"a", "p", "r", "i", "l">>, <<"m", "a", "y">>,
       <<"j", "u", "n", "e">>, <<"j", "u", "l", "y">>, <<"a", "u", "g", "u", "s", "t">>,
       <<"s", "e", "p", "t", "e", "m", "b", "e", "r">>, <<"o", "c", "t", "o", "b", "e", "r">>,
       <<"n", "o", "v", "e", "m", "b", "e", "r">>, <<"d", "e", "c", "e", "m", "b", "e", "r">> >>

\* the end (exclusive, 0-based) of the digits that start at position i
RECURSIVE SkipDigits(_, _)
SkipDigits(s, i) ==
    IF i < Len(s) /\ s[i + 1] \in Digits THEN SkipDigits(s, i + 1) ELSE i

\* the end (exclusive) of a match of /(January|...|December)\s+\d+/i that starts at
\* position i (0-based), or -1
DateMatchEnd(content, i) ==
    LET lower == ToLowerCase(content)
        named == {m \in 1..12 :
                    /\ i + Len(MonthNames[m]) <= Len(content)
                    /\ SubSeq(lower, i + 1, i + Len(MonthNames[m])) = MonthNames[m]}
    IN  IF named = {} THEN -1
        ELSE LET m == CHOOSE n \in named : TRUE
                 a == i + Len(MonthNames[m])
                 b == SkipSpace(content, a)
                 c == SkipDigits(content, b)
             IN  IF b > a /\ c > b THEN c ELSE -1

\* dateMatch[0], or the empty string
ExtractedDate(content) ==
    LET starts == {i \in 0..Len(content) : DateMatchEnd(content, i) # -1}
    IN  IF starts = {} THEN <<>>
        ELSE LET first == CHOOSE i \in starts : \A j \in starts : i <= j
             IN  SubSeq(content, first + 1, DateMatchEnd(content, first))

WeekWord == <<"w", "e", "e", "k">>

\* the forEach body of MindMapParser; state holds currentWeek and data
MindMapLine(state, line) ==
    IF Includes(ToLowerCase(line), WeekWord)
    THEN [state EXCEPT !.currentWeek = Trim(line)]
    ELSE IF state.currentWeek # <<>> /\ Includes(line, <<":">>)
    THEN LET parts == Split(line, ":")
             day == Trim(parts[1])
             target == Trim(parts[2])
         IN  [state EXCEPT !.data =
                Put(@, ToLowerCase(state.currentWeek \o <<" ">> \o day), target)]
    ELSE state

RECURSIVE MindMapFrom(_, _)
MindMapFrom(state, lines) ==
    IF lines = <<>> THEN state
    ELSE MindMapFrom(MindMapLine(state, Head(lines)), Tail(lines))

MindMapParser(content) ==
    [data |-> MindMapFrom([currentWeek |-> <<>>, data |-> <<>>], NonBlankLines(content)).data,
     date |-> ExtractedDate(content)]

(***************************************************************************)
(* CalendarTableParser of lib/parsers.ts, on the text of the scan          *)
(***************************************************************************)
\* the days of lib/parsers.ts, monday first
textDays == [k \in 1..7 |-> days[(k % 7) + 1]]

\* the keys of its abbreviations, in the same order
textAbbreviations == [k \in 1..7 |-> SubSeq(textDays[k], 1, 3)]

\* the characters of /[-—|]/, the em dash written as "--"
RuleChars == {"-", "--", "|"}

IsAlphanumeric(c) == IsLower(c) \/ IsUpper(c) \/ c \in Digits

\* ocrText.split('\n').map(l => l.trim()).filter(l => l.length > 2)
TextLines(text) ==
    LET trimmed == [i \in 1..Len(Split(text, "\n")) |-> Trim(Split(text, "\n")[i])]
    IN  SelectSeq(trimmed, LAMBDA l : Len(l) > 2)

\* whether /\bw\b/ matches the lowercase text at the 0-based position i
WordAt(lower, w, i) ==
    /\ i + Len(w) <= Len(lower)
    /\ SubSeq(lower, i + 1, i + Len(w)) = w
    /\ (i = 0 \/ ~IsWordChar(lower[i]))
    /\ (i + Len(w) = Len(lower) \/ ~IsWordChar(lower[i + Len(w) + 1]))

\* the position of the first match of /\bw\b/i at or after from, or -1
WordIndexFrom(line, w, from) ==
    LET hits == {i \in from..Len(line) : WordAt(ToLowerCase(line), w, i)}
    IN  IF hits = {} THEN -1 ELSE CHOOSE i \in hits : \A j \in hits : i <= j

\* new RegExp('\\b' + w + '\\b', 'i').test(line)
HasWord(line, w) == WordIndexFrom(line, w, 0) # -1

\* text.replace(/[-—|]/g, '')
RemoveRules(text) == SelectSeq(text, LAMBDA c : c \notin RuleChars)

\* text.replace(new RegExp(d, 'gi'), '')
RECURSIVE RemoveAll(_, _)
RemoveAll(text, d) ==
    LET i == IndexOf(ToLowerCase(text), d)
    IN  IF i = -1 THEN text
        ELSE SubSeq(text, 1, i) \o RemoveAll(SubSeq(text, i + Len(d) + 1, Len(text)), d)

\* text.replace(new RegExp('\\b' + w + '\\b', 'gi'), ''), the part of text from `from` on
RECURSIVE RemoveWordsFrom(_, _, _)
RemoveWordsFrom(text, w, from) ==
    LET i == WordIndexFrom(text, w, from)
    IN  IF i = -1 THEN SubSeq(text, from + 1, Len(text))
        ELSE SubSeq(text, from + 1, i) \o RemoveWordsFrom(text, w, i + Len(w))

\* days.forEach(d => { subject = subject.replace(new RegExp(d, 'gi'), ''); }), from day k on
RECURSIVE RemoveDays(_, _)
RemoveDays(subject, k) ==
    IF k > 7 THEN subject
    ELSE IF ~Includes(ToLowerCase(subject), textDays[k]) THEN RemoveDays(subject, k + 1)
    ELSE RemoveDays(RemoveAll(subject, textDays[k]), k + 1)

\* the same loop over the abbreviations, with word boundaries
RECURSIVE RemoveAbbreviations(_, _)
RemoveAbbreviations(subject, k) ==
    IF k > 7 THEN subject
    ELSE IF ~HasWord(subject, textAbbreviations[k]) THEN RemoveAbbreviations(subject, k + 1)
    ELSE RemoveAbbreviations(RemoveWordsFrom(subject, textAbbreviations[k], 0), k + 1)

\* the subject without day names and abbreviations
StripDays(subject) == RemoveAbbreviations(RemoveDays(subject, 1), 1)

\* subject.replace(/^[^a-z0-9]+|[^a-z0-9]+$/gi, '')
RECURSIVE StripStart(_)
StripStart(text) ==
    IF text # <<>> /\ ~IsAlphanumeric(Head(text)) THEN StripStart(Tail(text)) ELSE text

RECURSIVE StripEnd(_)
StripEnd(text) ==
    IF text # <<>> /\ ~IsAlphanumeric(text[Len(text)])
    THEN StripEnd(SubSeq(text, 1, Len(text) - 1)) ELSE text

StripEnds(text) == StripEnd(StripStart(text))

SmallGroupText == <<"s", "m", "a", "l", "l", " ", "g", "r", "o", "u", "p">>

Weekly == <<"w", "e", "e", "k", "l", "y">>

General == <<"G", "e", "n", "e", "r", "a", "l">>

SingText == <<"s", "i", "n", "g">>

isMetadata(text) ==
    \/ Includes(ToLowerCase(text), SmallGroupText)
    \/ Includes(ToLowerCase(text), ToLowerCase(SongOfTheWeek))
    \/ Includes(ToLowerCase(text), Weekly)
    \/ Len(text) < 2

\* IsHeaderLine without the abbreviations
IsHeaderLineByName(line) == \E k \in 1..7 : Includes(ToLowerCase(line), textDays[k])

\* whether the line holds a day name, or an abbreviation as a word
IsHeaderLine(line) ==
    \/ \E k \in 1..7 : Includes(ToLowerCase(line), textDays[k])
    \/ \E k \in 1..7 : HasWord(ToLowerCase(line), textAbbreviations[k])

\* lines.findIndex(...), 0-based, for the set of the 1-based positions that pass the
\* test; -1 when it is empty
FindIndex(hits) ==
    IF hits = {} THEN -1 ELSE (CHOOSE i \in hits : \A j \in hits : i <= j) - 1

headerLineIndex(lines) == FindIndex({i \in 1..Len(lines) : IsHeaderLine(lines[i])})

\* text.replace(/word\s*:?/i, ''): the first match with the white space and colon after it
RemovePrefix(text, word) ==
    LET i == IndexOf(ToLowerCase(text), word)
        j == SkipSpace(text, i + Len(word))
        end == IF j < Len(text) /\ text[j + 1] = ":" THEN j + 1 ELSE j
    IN  IF i = -1 THEN text ELSE SubSeq(text, 1, i) \o SubSeq(text, end + 1, Len(text))

\* the song: the first of the first ten lines that holds song or sing, without these words
ExtractedSong(lines) ==
    LET headerLines == SubSeq(lines, 1, Min(10, Len(lines)))
        songLine == FindIndex({i \in 1..Len(headerLines) :
                                  \/ Includes(ToLowerCase(headerLines[i]), SongText)
                                  \/ Includes(ToLowerCase(headerLines[i]), SingText)})
    IN  IF songLine = -1 THEN SongOfTheWeek
        ELSE IF Trim(RemovePrefix(RemovePrefix(lines[songLine + 1], SongText), SingText)) # <<>>
        THEN Trim(RemovePrefix(RemovePrefix(lines[songLine + 1], SongText), SingText))
        ELSE lines[songLine + 1]

\* the end of the first match of /week\s*\d+/i that starts at i, or -1
WeekMatchEnd(line, i) ==
    LET j == SkipSpace(line, i + Len(WeekWord))
    IN  IF /\ i + Len(WeekWord) <= Len(line)
           /\ SubSeq(ToLowerCase(line), i + 1, i + Len(WeekWord)) = WeekWord
           /\ j < Len(line) /\ line[j + 1] \in Digits
        THEN SkipDigits(line, j) ELSE -1

\* line.match(/week\s*\d+/i): the matched text, or <<>>
WeekMatch(line) ==
    LET hits == {i \in 0..Len(line) : WeekMatchEnd(line, i) # -1}
        first == CHOOSE i \in hits : \A j \in hits : i <= j
    IN  IF hits = {} THEN <<>> ELSE SubSeq(line, first + 1, WeekMatchEnd(line, first))

\* the week: match[0].toUpperCase() of the first of the first ten lines with a match
ExtractedWeek(lines) ==
    LET headerLines == SubSeq(lines, 1, Min(10, Len(lines)))
        weekLine == FindIndex({i \in 1..Len(headerLines) : WeekMatch(headerLines[i]) # <<>>})
    IN  IF weekLine = -1 THEN <<>> ELSE ToUpperCase(WeekMatch(lines[weekLine + 1]))

\* the start of day k in the lowercase header: of its name, else of its abbreviation, else -1
DayStart(lowerHeader, k) ==
    IF IndexOf(lowerHeader, textDays[k]) # -1 THEN IndexOf(lowerHeader, textDays[k])
    ELSE WordIndexFrom(lowerHeader, textAbbreviations[k], 0)

\* presentDays: the full names in the order of days, then the abbreviations of the others
PresentDays(lowerHeader) ==
    LET named == SelectSeq([k \in 1..7 |-> k], LAMBDA k : IndexOf(lowerHeader, textDays[k]) # -1)
        abbreviated == SelectSeq([k \in 1..7 |-> k],
                           LAMBDA k : /\ IndexOf(lowerHeader, textDays[k]) = -1
                                      /\ HasWord(lowerHeader, textAbbreviations[k]))
    IN  [i \in 1..(Len(named) + Len(abbreviated)) |->
            [day |-> textDays[(named \o abbreviated)[i]],
             start |-> DayStart(lowerHeader, (named \o abbreviated)[i])]]

\* line.slice(start, end) with 0 <= start
Slice(line, start, end) == SubSeq(line, start + 1, Min(end, Len(line)))

\* the entry of one present day of the column-based table; its subject is "" when the
\* day is left out
ColumnEntry(headerLine, contentLine, start, end) ==
    LET subject == Trim(StripEnds(StripDays(Trim(RemoveRules(Slice(headerLine, start, end))))))
        content == Trim(RemoveRules(Slice(contentLine, start, end)))
    IN  [kept |-> ~isMetadata(subject) \/ ~isMetadata(content),
         subject |-> IF subject = <<>> THEN Vocabulary ELSE subject,
         content |-> IF isMetadata(content) THEN <<>> ELSE content,
         game |-> IF isMetadata(content) THEN <<>> ELSE content]

\* calendarData[pd.day] = {...} for the present days from the i-th on
RECURSIVE ColumnBasedFrom(_, _, _)
ColumnBasedFrom(present, entries, i) ==
    IF i > Len(present) THEN <<>>
    ELSE IF ~entries[i].kept THEN ColumnBasedFrom(present, entries, i + 1)
    ELSE ColumnBasedFrom(present, entries, i + 1) @@
         (present[i].day :> [subject |-> entries[i].subject, content |-> entries[i].content,
                             game |-> entries[i].game])

\* the column-based branch: calendarData of the header line and the line after it
ColumnBased(lines, index) ==
    LET headerLine == lines[index + 1]
        contentLine == IF index + 2 <= Len(lines) THEN lines[index + 2] ELSE <<>>
        unsorted == PresentDays(ToLowerCase(headerLine))
        present == SortByKeys(unsorted, [i \in 1..Len(unsorted) |-> unsorted[i].start])
        entries == [i \in 1..Len(present) |->
                      ColumnEntry(headerLine, contentLine, present[i].start,
                                  IF i < Len(present) THEN present[i + 1].start
                                  ELSE Len(headerLine))]
    IN  ColumnBasedFrom(present, entries, 1)

\* dayIndex of the row-based branch: the first line with the name of day k, else the
\* first line with its abbreviation as a word
DayIndex(lines, k) ==
    IF \E i \in 1..Len(lines) : Includes(ToLowerCase(lines[i]), textDays[k])
    THEN FindIndex({i \in 1..Len(lines) : Includes(ToLowerCase(lines[i]), textDays[k])})
    ELSE FindIndex({i \in 1..Len(lines) : HasWord(lines[i], textAbbreviations[k])})

\* the entry of the row-based branch for the line at dayIndex
RowEntry(lines, dayIndex) ==
    LET stripped == StripDays(Trim(RemoveRules(lines[dayIndex + 1])))
        subject == IF ~isMetadata(stripped) THEN stripped
                   ELSE IF dayIndex + 2 <= Len(lines) THEN lines[dayIndex + 2] ELSE General
        row2Text == Join(SubSeq(lines, dayIndex + 2, Min(dayIndex + 4, Len(lines))), <<" ">>)
    IN  [subject |-> Trim(subject), content |-> row2Text, game |-> row2Text]

\* the row-based branch, for the days from the k-th on
RECURSIVE RowBasedFrom(_, _)
RowBasedFrom(lines, k) ==
    IF k > 7 THEN <<>>
    ELSE IF DayIndex(lines, k) = -1 THEN RowBasedFrom(lines, k + 1)
    ELSE RowBasedFrom(lines, k + 1) @@ (textDays[k] :> RowEntry(lines, DayIndex(lines, k)))

\* the row-based branch
RowBased(lines) == RowBasedFrom(lines, 1)

\* the final fallback: the whole text under monday when no day was found
TextFallback(data, lines, text) ==
    IF DOMAIN data = {} /\ Len(lines) > 0
    THEN textDays[1] :> [subject |-> PastedContent, content |-> text, game |-> text]
    ELSE data

\* the branch taken for the lines
TextCalendarData(lines, index) ==
    IF index # -1 THEN ColumnBased(lines, index) ELSE RowBased(lines)

\* the returned object (data, song, week), with lines and headerLineIndex kept beside it
TextCalendarTableParser(text) ==
    [lines |-> TextLines(text),
     headerLineIndex |-> headerLineIndex(TextLines(text)),
     data |-> TextFallback(TextCalendarData(TextLines(text), headerLineIndex(TextLines(text))),
                           TextLines(text), text),
     song |-> ExtractedSong(TextLines(text)),
     week |-> ExtractedWeek(TextLines(text))]

(***************************************************************************)
(* generateLessonPlan: learning targets and game                           *)
(***************************************************************************)
Null == [null |-> TRUE]

\* Object.entries(files.mindMap.data).find(...): the first entry whose key holds the
\* week label, when there is one, and the day; Null when there is none
MindMapMatch(entries, week, targetDay) ==
    LET currentWeekLabel == ToLowerCase(week)
        Found(e) ==
            LET lowerKey == ToLowerCase(e.key)
            IN  /\ (currentWeekLabel = <<>> \/ Includes(lowerKey, currentWeekLabel))
                /\ Includes(lowerKey, targetDay)
        found == {i \in 1..Len(entries) : Found(entries[i])}
    IN  IF found = {} THEN Null
        ELSE entries[CHOOSE i \in found : \A j \in found : i <= j]

LearningTargetsFor ==
    <<"L", "e", "a", "r", "n", "i", "n", "g", " ", "t", "a", "r", "g", "e", "t", "s", " ",
      "f", "o", "r", " ">>

\* mindMapMatch?.[1] || "Learning targets for " + dayData.content
Targets(mindMapMatch, content) ==
    IF mindMapMatch # Null /\ mindMapMatch.value # <<>>
    THEN mindMapMatch.value
    ELSE LearningTargetsFor \o content

\* text.split(/\s+/).filter(w => w.length >= 3)
LongWords(text) == SelectSeq(SplitWhitespace(text), LAMBDA w : Len(w) >= 3)

\* cleanWords.filter(w => messyWords.has(w)).length
Overlap(name, messyWords) ==
    Len(SelectSeq(LongWords(ToLowerCase(name)), LAMBDA w : w \in messyWords))

\* FuzzyStep with overlap >= maxOverlap for overlap > maxOverlap
FuzzyStepLast(best, name, messyWords) ==
    LET overlap == Overlap(name, messyWords)
    IN  IF overlap >= best.maxOverlap /\ overlap >= 1
        THEN [bestMatch |-> name, maxOverlap |-> overlap]
        ELSE best

\* the forEach body of findFuzzyGame; best holds bestMatch and maxOverlap
FuzzyStep(best, name, messyWords) ==
    LET overlap == Overlap(name, messyWords)
    IN  IF overlap > best.maxOverlap /\ overlap >= 1
        THEN [bestMatch |-> name, maxOverlap |-> overlap]
        ELSE best

RECURSIVE FuzzyFrom(_, _, _)
FuzzyFrom(best, names, messyWords) ==
    IF names = <<>> THEN best
    ELSE FuzzyFrom(FuzzyStep(best, Head(names), messyWords), Tail(names), messyWords)

\* findFuzzyGame on dayData.game and Object.keys(files.gamesList)
findFuzzyGame(game, names) ==
    LET messy == LongWords(ToLowerCase(game))
        messyWords == {messy[i] : i \in 1..Len(messy)}
    IN  FuzzyFrom([bestMatch |-> <<>>, maxOverlap |-> 0], names, messyWords).bestMatch

(***************************************************************************)
(* TemplateProcessor                                                       *)
(***************************************************************************)
\* GetSubstitution of String.prototype.replaceAll with a string pattern: the text put
\* in place of the match found at position (0-based) of str
RECURSIVE GetSubstitution(_, _, _, _)
GetSubstitution(matched, str, position, replacement) ==
    IF replacement = <<>> THEN <<>>
    ELSE IF /\ Head(replacement) = "$"
            /\ Len(replacement) >= 2
            /\ replacement[2] \in {"$", "&", "`", "'"}
    THEN (CASE replacement[2] = "$" -> <<"$">>
            [] replacement[2] = "&" -> matched
            [] replacement[2] = "`" -> SubSeq(str, 1, position)
            [] replacement[2] = "'" -> SubSeq(str, position + Len(matched) + 1, Len(str)))
         \o GetSubstitution(matched, str, position, SubSeq(replacement, 3, Len(replacement)))
    ELSE <<Head(replacement)>> \o GetSubstitution(matched, str, position, Tail(replacement))

\* String.prototype.replace with a string pattern: the first occurrence only
ReplaceFirst(str, pattern, value) ==
    LET p == IndexOf(str, pattern)
    IN  IF p = -1 THEN str
        ELSE SubSeq(str, 1, p) \o GetSubstitution(pattern, str, p, value)
                \o SubSeq(str, p + Len(pattern) + 1, Len(str))

RECURSIVE ReplaceFrom(_, _, _, _)
ReplaceFrom(str, pattern, value, from) ==
    LET p == IndexOfFrom(str, pattern, from)
    IN  IF p = -1 THEN SubSeq(str, from + 1, Len(str))
        ELSE SubSeq(str, from + 1, p) \o GetSubstitution(pattern, str, p, value)
                \o ReplaceFrom(str, pattern, value, p + Len(pattern))

\* String.prototype.replaceAll with a non-empty string pattern
ReplaceAll(str, pattern, value) == ReplaceFrom(str, pattern, value, 0)

\* `{{${key}}}`
Placeholder(key) == <<"{", "{">> \o key \o <<"}", "}">>

\* Object.entries(data).forEach(([key, value]) => text = text.replaceAll(placeholder, value))
RECURSIVE Substitute(_, _)
Substitute(text, entries) ==
    IF entries = <<>> THEN text
    ELSE Substitute(ReplaceAll(text, Placeholder(Head(entries).key), Head(entries).value),
                    Tail(entries))

\* TemplateProcessor on a buffer: Null, or its first bytes (isZip), whether the archive
\* can be read and holds word/document.xml (document), and its text: the decoded
\* buffer, or the document of the archive; the result or the error thrown
TemplateProcessor(arrayBuffer, entries) ==
    IF arrayBuffer = Null
    THEN [error |-> "Template buffer is missing."]
    ELSE IF ~arrayBuffer.isZip
    THEN [extension |-> "txt", text |-> Substitute(arrayBuffer.text, entries)]
    ELSE IF ~arrayBuffer.document
    THEN [error |-> "Failed to process template"]
    ELSE [extension |-> "docx", text |-> Substitute(arrayBuffer.text, entries)]

(***************************************************************************)
(* Inputs                                                                  *)
(***************************************************************************)
Word(text, x0, y0, x1, y1) ==
    [text |-> text, bbox |-> [x0 |-> Px(x0), y0 |-> Px(y0), x1 |-> Px(x1), y1 |-> Px(y1)]]

\* the sequences over S of length at most n
RECURSIVE SeqsUpTo(_, _)
SeqsUpTo(S, n) ==
    IF n = 0 THEN {<<>>}
    ELSE LET shorter == SeqsUpTo(S, n - 1)
         IN  shorter \cup {Append(s, x) : s \in {t \in shorter : Len(t) = n - 1}, x \in S}

MaxRowWords == 3

RowTops == {0, 4, 8}

RowHeights == {2, 10}

RowLefts == {0, 5}

RowWordText == <<"a", "b", "c">>

RowWords ==
    {Word(RowWordText, x, y, x + 3, y + h) : x \in RowLefts, y \in RowTops, h \in RowHeights}

MaxHeaderWords == 4

MaxContentWords == 1

\* the boxes (x0, x1, in pixels) a header word can have: disjoint, in ascending order
HeaderBoxes == << <<10, 40>>, <<50, 80>>, <<84, 98>>, <<100, 140>>, <<150, 180>> >>

\* the boxes a content word can have: left of every header box, on the midpoint of
\* two header boxes, under a header box
ContentBoxes == << <<0, 8>>, <<40, 50>>, <<80, 100>>, <<110, 130>> >>

Monday == <<"M", "o", "n", "d", "a", "y">>

Tuesday == <<"T", "u", "e", "s", "d", "a", "y">>

Science == <<"S", "c", "i", "e", "n", "c", "e">>

Art == <<"A", "r", "t">>

Song == <<"S", "o", "n", "g">>

PE == <<"P", "E">>

Small == <<"S", "m", "a", "l", "l">>

Group == <<"G", "r", "o", "u", "p">>

Bees == <<"B", "e", "e", "s">>

HeaderTexts == {Monday, Tuesday, Science, Art, Song, PE}

MetadataTexts == {Monday, Small, Group}

\* the layouts of at most k words over the boxes: which boxes hold a word, in
\* ascending order (strictly ascending sequences over 1..n of length at most k)
RECURSIVE AscendingUpTo(_, _)
AscendingUpTo(n, k) ==
    IF k = 0 THEN {<<>>}
    ELSE LET shorter == AscendingUpTo(n, k - 1)
         IN  shorter \cup
             UNION {{Append(s, x) : x \in {y \in 1..n : s = <<>> \/ y > s[Len(s)]}} :
                    s \in {t \in shorter : Len(t) = k - 1}}

\* the vertical extent (y0, y1, in pixels) of the header row and of the content row
HeaderBand == <<10, 30>>

ContentBand == <<40, 60>>

\* the header rows over `texts`: a layout of the header boxes, a text in each box
HeaderRows(texts) ==
    UNION {
        {[i \in 1..Len(boxes) |->
            Word(t[i], HeaderBoxes[boxes[i]][1], HeaderBand[1], HeaderBoxes[boxes[i]][2], HeaderBand[2])] :
            t \in [1..Len(boxes) -> texts]} :
        boxes \in AscendingUpTo(Len(HeaderBoxes), MaxHeaderWords)}

\* the content rows: a layout of the content boxes, the same text in each box
ContentRows ==
    {[i \in 1..Len(boxes) |->
        Word(Bees, ContentBoxes[boxes[i]][1], ContentBand[1], ContentBoxes[boxes[i]][2], ContentBand[2])] :
        boxes \in AscendingUpTo(Len(ContentBoxes), MaxContentWords)}

(***************************************************************************)
(* ai.ts: OCRProcessor and AdvancedLessonPlanSynthesizer                   *)
(***************************************************************************)
\* a parsed JSON value: its kind and, for an object, its keys in insertion order
JsonValue(kind, keys) == [kind |-> kind, keys |-> keys]

JsonFail == [ok |-> FALSE, next |-> 0, value |-> JsonValue("none", <<>>)]

JsonOk(next, value) == [ok |-> TRUE, next |-> next, value |-> value]

\* the position (1-based) of the first character at or after i that is not white space
RECURSIVE JsonSkip(_, _)
JsonSkip(s, i) ==
    IF i <= Len(s) /\ s[i] \in {" ", "\t", "\n", "\r"} THEN JsonSkip(s, i + 1) ELSE i

\* the position of the quote that closes the string whose characters start at i, or 0
RECURSIVE JsonStringEnd(_, _)
JsonStringEnd(s, i) ==
    IF i > Len(s) THEN 0
    ELSE IF s[i] = "\"" THEN i
    ELSE IF s[i] \in {"\n", "\t", "\r"} THEN 0
    ELSE IF s[i] = "\\"
    THEN IF i < Len(s) /\ s[i + 1] \in {"\"", "\\", "/", "b", "f", "n", "r", "t"}
         THEN JsonStringEnd(s, i + 2)
         ELSE 0
    ELSE JsonStringEnd(s, i + 1)

\* the position after the digits that start at i
RECURSIVE JsonDigitsEnd(_, _)
JsonDigitsEnd(s, i) ==
    IF i <= Len(s) /\ s[i] \in Digits THEN JsonDigitsEnd(s, i + 1) ELSE i

\* an integer at i: an optional minus sign, then 0 or digits that do not start with 0
JsonNumber(s, i) ==
    LET start == IF s[i] = "-" THEN i + 1 ELSE i
        end == JsonDigitsEnd(s, start)
    IN  IF end = start \/ (s[start] = "0" /\ end > start + 1) THEN JsonFail
        ELSE JsonOk(end, JsonValue("number", <<>>))

JsonLiteral(s, i, word, kind) ==
    IF i + Len(word) - 1 <= Len(s) /\ SubSeq(s, i, i + Len(word) - 1) = word
    THEN JsonOk(i + Len(word), JsonValue(kind, <<>>))
    ELSE JsonFail

RECURSIVE JsonParseValue(_, _)
RECURSIVE JsonParseMembers(_, _, _)
RECURSIVE JsonParseElements(_, _)
\* the value that starts at i
JsonParseValue(s, i) ==
    IF i > Len(s) THEN JsonFail
    ELSE IF s[i] = "{"
    THEN LET j == JsonSkip(s, i + 1)
         IN  IF j <= Len(s) /\ s[j] = "}" THEN JsonOk(j + 1, JsonValue("object", <<>>))
             ELSE JsonParseMembers(s, j, <<>>)
    ELSE IF s[i] = "["
    THEN LET j == JsonSkip(s, i + 1)
         IN  IF j <= Len(s) /\ s[j] = "]" THEN JsonOk(j + 1, JsonValue("array", <<>>))
             ELSE JsonParseElements(s, j)
    ELSE IF s[i] = "\""
    THEN LET end == JsonStringEnd(s, i + 1)
         IN  IF end = 0 THEN JsonFail ELSE JsonOk(end + 1, JsonValue("string", <<>>))
    ELSE IF s[i] \in Digits \cup {"-"} THEN JsonNumber(s, i)
    ELSE IF s[i] = "n" THEN JsonLiteral(s, i, <<"n", "u", "l", "l">>, "null")
    ELSE IF s[i] = "t" THEN JsonLiteral(s, i, <<"t", "r", "u", "e">>, "boolean")
    ELSE IF s[i] = "f" THEN JsonLiteral(s, i, <<"f", "a", "l", "s", "e">>, "boolean")
    ELSE JsonFail

\* the members of an object from the key at i on, after the keys already read
JsonParseMembers(s, i, keys) ==
    IF i > Len(s) \/ s[i] # "\"" THEN JsonFail
    ELSE LET end == JsonStringEnd(s, i + 1)
         IN  IF end = 0 THEN JsonFail
             ELSE LET key == SubSeq(s, i + 1, end - 1)
                      colon == JsonSkip(s, end + 1)
                  IN  IF colon > Len(s) \/ s[colon] # ":" THEN JsonFail
                      ELSE LET v == JsonParseValue(s, JsonSkip(s, colon + 1))
                               n == JsonSkip(s, v.next)
                               read == IF \E k \in 1..Len(keys) : keys[k] = key
                                       THEN keys ELSE Append(keys, key)
                           IN  IF ~v.ok \/ n > Len(s) THEN JsonFail
                               ELSE IF s[n] = "}" THEN JsonOk(n + 1, JsonValue("object", read))
                               ELSE IF s[n] = ","
                               THEN JsonParseMembers(s, JsonSkip(s, n + 1), read)
                               ELSE JsonFail

\* the elements of an array from the one at i on
JsonParseElements(s, i) ==
    LET v == JsonParseValue(s, i)
        n == JsonSkip(s, v.next)
    IN  IF ~v.ok \/ n > Len(s) THEN JsonFail
        ELSE IF s[n] = "]" THEN JsonOk(n + 1, JsonValue("array", <<>>))
        ELSE IF s[n] = "," THEN JsonParseElements(s, JsonSkip(s, n + 1))
        ELSE JsonFail

\* JSON.parse(text) for integers, strings, literals, arrays and objects: whether it
\* returns, and the value
JSONParse(text) ==
    LET v == JsonParseValue(text, JsonSkip(text, 1))
    IN  IF v.ok /\ JsonSkip(text, v.next) > Len(text) THEN [ok |-> TRUE, value |-> v.value]
        ELSE [ok |-> FALSE, value |-> JsonValue("none", <<>>)]

\* the grave accent (U+0060), which a TLA+ string cannot hold
Backtick == "backtick"

\* the three grave accents of a markdown block
Fence == <<Backtick, Backtick, Backtick>>

JsonFence == Fence \o <<"j", "s", "o", "n">>

\* text.split(sep)[1].split(Fence)[0].trim(), for a text that includes sep
Fenced(text, sep) ==
    LET i == IndexOf(text, sep)
        rest == SubSeq(text, i + Len(sep) + 1, Len(text))
        j == IndexOf(rest, sep)
        second == IF j = -1 THEN rest ELSE SubSeq(rest, 1, j)
        k == IndexOf(second, Fence)
    IN  Trim(IF k = -1 THEN second ELSE SubSeq(second, 1, k))

\* the markdown block of a Gemini answer is stripped
StripFence(text) ==
    IF Includes(text, JsonFence) THEN Fenced(text, JsonFence)
    ELSE IF Includes(text, Fence) THEN Fenced(text, Fence)
    ELSE text

InvalidJsonError == "AI returned an invalid JSON format. Please try again."

\* getResponse on the body `data` of the provider's answer: data.error is set or not,
\* data.choices holds the answers (the candidates of Gemini); the text, or the error
getResponse(data, provider) ==
    IF data.error
    THEN [error |-> IF provider = "openai" THEN "OpenAI Error" ELSE "Gemini Error",
          text |-> <<>>]
    ELSE IF data.choices = <<>> THEN [error |-> "TypeError", text |-> <<>>]
    ELSE [error |-> "",
          text |-> IF provider = "openai" THEN data.choices[1]
                   ELSE StripFence(data.choices[1])]

\* AdvancedLessonPlanSynthesizer: the value returned, or the error thrown
AdvancedLessonPlanSynthesizer(data, provider) ==
    LET response == getResponse(data, provider)
        parsed == JSONParse(response.text)
    IN  IF response.error # "" THEN [error |-> response.error, value |-> Null]
        ELSE IF parsed.ok THEN [error |-> "", value |-> parsed.value]
        ELSE [error |-> InvalidJsonError, value |-> Null]

\* an image: whether Tesseract recognises it, and the words it recognises
OCRProcessor(file) ==
    IF file.readable THEN [error |-> "", data |-> file.words]
    ELSE [error |-> "Tesseract error", data |-> <<>>]

(***************************************************************************)
(* storage.ts: the functions over the key-value store                      *)
(***************************************************************************)
\* what get(key) gives for a key that was never set
Undefined == [undefined |-> TRUE]

MetadataKey == "all_sets_metadata"

\* set(key, value), get(key) and del(key) of the store when they do not fail
StoreSet(store, key, value) == [store EXCEPT ![key] = [value |-> value]]

StoreGet(store, key) == store[key]

StoreDel(store, key) == [store EXCEPT ![key] = Undefined]

\* each function gives the store after the call, whether the call threw (its promise
\* is rejected) and the value returned; `fails` is whether the store operation fails
saveAppState(store, key, value, fails) ==
    [idb |-> IF fails THEN store ELSE StoreSet(store, key, value),
     threw |-> FALSE, value |-> Undefined]

loadAppState(store, key, fails) ==
    [idb |-> store, threw |-> FALSE,
     value |-> IF fails THEN Null ELSE StoreGet(store, key)]

clearAppState(store, key, fails) ==
    [idb |-> IF fails THEN store ELSE StoreDel(store, key),
     threw |-> FALSE, value |-> Undefined]

\* await get('all_sets_metadata') || []
listSets(store, fails) ==
    [idb |-> store, threw |-> FALSE,
     value |-> IF fails \/ StoreGet(store, MetadataKey) = Undefined
               THEN [value |-> <<>>]
               ELSE StoreGet(store, MetadataKey)]

\* the set is awaited outside of any try block
saveSetMetadata(store, names, fails) ==
    [idb |-> IF fails THEN store ELSE StoreSet(store, MetadataKey, names),
     threw |-> fails, value |-> Undefined]

\* the keys of the store and the store in which no key was ever set
SetNames == {"a", "b"}

\* `docset_DATA_${name}`
DocsetKey(name) == IF name = "a" THEN "docset_DATA_a" ELSE "docset_DATA_b"

StoreKeys ==
    {"app_files", "app_config", "app_spiral_index", "app_messages", MetadataKey}
        \cup {DocsetKey(name) : name \in SetNames}

EmptyStore == [key \in StoreKeys |-> Undefined]

NoStorage == idb = EmptyStore /\ returned = NotRun

NoAi ==
    /\ configProvider = "openai"
    /\ responseData = [error |-> FALSE, choices |-> <<>>]
    /\ synthData = NotRun

\* the variables of the operations a specification does not run
NoTextCalendar == ocrText = <<>> /\ textCalendar = NotRun

NoCalendar == ocrWords = <<>> /\ calendar = NotRun /\ NoTextCalendar

NoReview == list = <<>> /\ currentIndex = 0 /\ review = NotRun

NoGame == gameText = <<>> /\ gameNames = <<>> /\ gameMatch = NotRun

NoMindMap == mindMapContent = <<>> /\ mindMap = NotRun /\ weekLabel = <<>> /\ targets = NotRun

NoTemplate == templateText = <<>> /\ templateData = <<>> /\ rendered = NotRun /\ renderedAgain = NotRun

NoSession ==
    /\ files = [mindMap |-> Null, calendar |-> Null, gamesList |-> Null,
                spiralReview |-> Null, template |-> Null]
    /\ apiKey = <<>>
    /\ spiralIndex = 0
    /\ configOpen = FALSE
    /\ appended = <<>>
    /\ inFlight = <<>>
    /\ savedSetNames = <<>>
    /\ isHydrated = FALSE
    /\ hydration = "mount"
    /\ lastStarted = Null

NoApp == NoSession /\ NoStorage /\ NoAi

NoOthers == NoTextCalendar /\ NoReview /\ NoGame /\ NoMindMap /\ NoTemplate /\ NoApp

InitRows ==
    /\ ocrWords \in SeqsUpTo(RowWords, MaxRowWords)
    /\ calendar = NotRun
    /\ NoOthers

\* the parser is run on the word list
ParseCalendar ==
    /\ calendar = NotRun
    /\ calendar' = CalendarTableParser(ocrWords)
    /\ UNCHANGED <<ocrWords, ocrText, textCalendar, reviewVars, gameVars, mindMapVars, templateVars, appVars>>

NextCalendar == ParseCalendar

SpecRows == InitRows /\ [][NextCalendar]_vars

\* a header row over the header texts and a content row below it
InitColumns ==
    /\ ocrWords \in {h \o c : h \in HeaderRows(HeaderTexts), c \in ContentRows}
    /\ calendar = NotRun
    /\ NoOthers

SpecColumns == InitColumns /\ [][NextCalendar]_vars

\* a header row over the day and the metadata texts and a content row below it
InitMetadata ==
    /\ ocrWords \in {h \o c : h \in HeaderRows(MetadataTexts), c \in ContentRows}
    /\ calendar = NotRun
    /\ NoOthers

SpecMetadata == InitMetadata /\ [][NextCalendar]_vars

(***************************************************************************)
(* Claims                                                                  *)
(***************************************************************************)
\* the number of positions of s that hold x
Count(s, x) == Cardinality({i \in 1..Len(s) : s[i] = x})

Parsed == calendar # NotRun

\* C1: the rows are in ascending order of yMin (the smallest y0 of their words),
\* the words of each row are in ascending order of x0, and every input word is in
\* exactly one row: as often in the rows together as in the input, and no row
\* holds a word that is not in the input.
C1_RowsOrderedAndComplete ==
    Parsed =>
        LET rows == calendar.rows
            rowWords == Flatten([i \in 1..Len(rows) |-> rows[i].words])
        IN  /\ \A i \in 1..Len(rows) :
                /\ rows[i].words # <<>>
                /\ \A k \in 1..Len(rows[i].words) : rows[i].y0 <= rows[i].words[k].bbox.y0
                /\ \E k \in 1..Len(rows[i].words) : rows[i].y0 = rows[i].words[k].bbox.y0
            /\ \A i \in 1..(Len(rows) - 1) : rows[i].y0 <= rows[i + 1].y0
            /\ \A i \in 1..Len(rows) : \A k \in 1..(Len(rows[i].words) - 1) :
                    rows[i].words[k].bbox.x0 <= rows[i].words[k + 1].bbox.x0
            /\ Len(rowWords) = Len(ocrWords)
            /\ \A k \in 1..Len(ocrWords) :
                    Count(rowWords, ocrWords[k]) = Count(ocrWords, ocrWords[k])

\* C1 witness: an input that is sorted neither by y0 nor by x0 was clustered into
\* several rows, one of them with several words
C1_Witness ==
    /\ Parsed
    /\ Len(calendar.rows) >= 2
    /\ \E i \in 1..Len(calendar.rows) : Len(calendar.rows[i].words) >= 2
    /\ \E k \in 1..(Len(ocrWords) - 1) : ocrWords[k].bbox.y0 > ocrWords[k + 1].bbox.y0
    /\ \E k \in 1..(Len(ocrWords) - 1) : ocrWords[k].bbox.x0 > ocrWords[k + 1].bbox.x0

HeaderParsed == Parsed /\ calendar.headerFound

\* C2: after the columns are sorted and closed, the xMax of each column equals the
\* xMin of the next one, and that value is the midpoint of the left column's xMax
\* and the right column's xMin as they were just before closing.
C2_ClosedByBisection ==
    HeaderParsed =>
        LET before == calendar.widenedCols
            cols == calendar.cols
        IN  /\ Len(cols) = Len(before)
            /\ \A i \in 1..(Len(cols) - 1) :
                /\ cols[i].xMax = cols[i + 1].xMin
                /\ 2 * cols[i].xMax = before[i].xMax + before[i + 1].xMin

\* C2 witness: three or more columns were closed, one of them widened by a subject
C2_Witness ==
    /\ HeaderParsed
    /\ Len(calendar.cols) >= 3
    /\ calendar.widenedCols # calendar.sortedCols
    /\ \E i \in 1..(Len(calendar.cols) - 1) :
            calendar.widenedCols[i].xMax < calendar.widenedCols[i + 1].xMin

\* the words of the content rows
ContentWords == Flatten([r \in 1..Len(calendar.contentRows) |-> calendar.contentRows[r].words])

\* the columns whose content holds content word w
ColumnsHolding(w) ==
    {i \in 1..Len(calendar.cols) : \E k \in 1..Len(calendar.colWords[i]) : calendar.colWords[i][k] = w}

\* C3: with at least one column, every content-row word is added to the content of
\* exactly one column.
C3_ExactlyOneColumn ==
    (HeaderParsed /\ Len(calendar.cols) >= 1) =>
        \A k \in 1..Len(ContentWords) : Cardinality(ColumnsHolding(ContentWords[k])) = 1

StartsWith(s, p) == Len(p) <= Len(s) /\ SubSeq(s, 1, Len(p)) = p

WordMid(w) == (w.bbox.x0 + w.bbox.x1) \div 2

\* the column opened most recently to the left of header word w: the last column, in
\* x order, whose header word starts left of w; 0 when there is none
Opener(w) ==
    LET left == {i \in 1..Len(calendar.sortedCols) : calendar.sortedCols[i].xMin < w.bbox.x0}
    IN  IF left = {} THEN 0 ELSE CHOOSE i \in left : \A j \in left : j <= i

\* the midpoint of w is more than 15 pixels outside the extent (header word and
\* attached subject words) of every column but p
ClearOfOthers(w, p) ==
    \A j \in 1..Len(calendar.widenedCols) :
        j # p =>
            \/ WordMid(w) < calendar.widenedCols[j].xMin - 2 * ColumnTolerance
            \/ WordMid(w) > calendar.widenedCols[j].xMax + 2 * ColumnTolerance

\* the header word is neither a day token nor a "song" token
FreeWord(w) == ~IsDayOrSong(w)

\* the columns to whose subject the amended claim lets header word w be appended
\* (0: to none)
AllowedTargets(w) ==
    IF ~FreeWord(w) \/ Len(w.text) <= 2 THEN {0}
    ELSE IF Opener(w) # 0 /\ ClearOfOthers(w, Opener(w))
    THEN (IF calendar.sortedCols[Opener(w)].isSong THEN {0} ELSE {Opener(w)})
    ELSE {0} \cup {i \in 1..Len(calendar.widenedCols) : ~calendar.widenedCols[i].isSong}

\* the rest of the subjects, rem, is made of the header words, in order, each appended
\* (after a space, when the subject is not empty) to one of the targets allowed to it
RECURSIVE Distributes(_, _)
Distributes(words, rem) ==
    IF words = <<>> THEN \A i \in 1..Len(rem) : rem[i] = <<>>
    ELSE \E i \in AllowedTargets(Head(words)) :
            IF i = 0 THEN Distributes(Tail(words), rem)
            ELSE LET piece == IF Len(rem[i]) = Len(calendar.widenedCols[i].subject)
                              THEN Head(words).text
                              ELSE <<" ">> \o Head(words).text
                 IN  /\ StartsWith(rem[i], piece)
                     /\ Distributes(Tail(words),
                                    [rem EXCEPT ![i] = SubSeq(@, Len(piece) + 1, Len(@))])

HeaderTextsAre(texts) ==
    /\ Len(calendar.headerWords) = Len(texts)
    /\ \A k \in 1..Len(texts) : calendar.headerWords[k].text = texts[k]

\* the result the claim states for the header Monday, Science, Tuesday, Art
ExampleResult ==
    /\ Len(calendar.cols) = 2
    /\ calendar.cols[1].day = days[2] /\ calendar.cols[2].day = days[3]
    /\ calendar.data[days[2]].subject = Science
    /\ calendar.data[days[3]].subject = Art
    /\ calendar.cols[1].xMax = calendar.cols[2].xMin
    /\ 2 * calendar.cols[1].xMax =
            calendar.headerWords[2].bbox.x1 + calendar.headerWords[3].bbox.x0

PrecedingDay(w) ==
    LET left == {i \in 1..Len(calendar.sortedCols) :
                    /\ ~calendar.sortedCols[i].isSong
                    /\ calendar.sortedCols[i].xMin < w.bbox.x0}
    IN  IF left = {} THEN 0 ELSE CHOOSE i \in left : \A j \in left : j <= i

\* the texts of the free header words whose preceding day is column i, in order
PrecedingTexts(i) ==
    LET free == SelectSeq(calendar.headerWords,
                          LAMBDA w : FreeWord(w) /\ PrecedingDay(w) = i)
    IN  [k \in 1..Len(free) |-> free[k].text]

SmallGroup == <<"s", "m", "a", "l", "l", " ", "g", "r", "o", "u", "p">>

\* C8: no day record of the result has a subject equal to "small group" in any
\* letter case.
C8_NoSmallGroupSubject ==
    Parsed =>
        \A d \in DOMAIN calendar.data : ToLowerCase(calendar.data[d].subject) # SmallGroup

(***************************************************************************)
(* GetSpiralReviewItems on a list and a cursor                             *)
(***************************************************************************)
MaxList == 6

MaxCursor == 7

Sentences == {<<"a">>, <<"b">>, <<"c">>}

InitSpiral ==
    /\ list \in SeqsUpTo(Sentences, MaxList)
    /\ currentIndex \in 0..MaxCursor
    /\ review = NotRun
    /\ NoCalendar /\ NoGame /\ NoMindMap /\ NoTemplate /\ NoApp

\* GetSpiralReviewItems is called; Math.random() decides the recent draw
SpiralReview ==
    /\ review = NotRun
    /\ \E recentIndex \in (IF list = <<>> THEN {0} ELSE RecentIndices(list)) :
            review' = GetSpiralReviewItems(list, currentIndex, recentIndex)
    /\ UNCHANGED <<list, currentIndex, calendarVars, gameVars, mindMapVars, templateVars, appVars>>

NextSpiral == SpiralReview

SpecSpiral == InitSpiral /\ [][NextSpiral]_vars

\* C4: for a non-empty list of length L and a cursor >= 0 the call returns
\* oldest = list[L-1-(cursor mod L)] (0-based) and nextIndex = cursor + 1, and the
\* call with cursor + L returns the same oldest.
C4_OldestByCursor ==
    (review # NotRun /\ list # <<>>) =>
        LET L == Len(list)
        IN  /\ review.oldest = list[(L - 1 - (currentIndex % L)) + 1]
            /\ review.nextIndex = currentIndex + 1
            /\ \A r \in RecentIndices(list) :
                    GetSpiralReviewItems(list, currentIndex + L, r).oldest = review.oldest

\* C4 witness: a call on a list of three different sentences with a cursor past the
\* length of the list
C4_Witness ==
    /\ review # NotRun
    /\ Len(list) = 3
    /\ Cardinality({list[i] : i \in 1..3}) = 3
    /\ currentIndex > 3
    /\ review.oldest = list[3 - (currentIndex % 3)]

(***************************************************************************)
(* findFuzzyGame on a game text and a catalog                              *)
(***************************************************************************)
MaxGameWords == 3

MaxCatalog == 3

\* the words of the game texts: two of them of catalog names, one capitalised, one
\* of less than three characters
GameWords ==
    {<<"b", "e", "e">>, <<"h", "u", "n", "t">>, <<"L", "e", "a", "f">>, <<"g", "o">>}

\* the catalog names, one of them with a word twice and one with a short word
GameNames ==
    {<<"b", "e", "e", " ", "h", "u", "n", "t">>, <<"l", "e", "a", "f", " ", "t", "o", "s", "s">>,
     <<"h", "u", "n", "t", " ", "l", "e", "a", "f">>, <<"g", "o", " ", "b", "e", "e">>,
     <<"b", "e", "e", " ", "b", "e", "e">>}

ExampleGameText ==
    <<"p", "l", "a", "y", " ", "t", "h", "e", " ", "b", "e", "e", " ", "h", "u", "n", "t", " ",
      "g", "a", "m", "e", " ", "t", "o", "d", "a", "y">>

ExampleCatalog ==
    << <<"b", "e", "e", " ", "h", "u", "n", "t">>, <<"l", "e", "a", "f", " ", "t", "o", "s", "s">> >>

\* the sequences over S of length at most n in which no element occurs twice
Catalogs(S, n) ==
    {s \in SeqsUpTo(S, n) : \A i, j \in 1..Len(s) : s[i] = s[j] => i = j}

InitGames ==
    /\ gameText \in {Join(ws, <<" ">>) : ws \in SeqsUpTo(GameWords, MaxGameWords)}
                        \cup {ExampleGameText}
    /\ gameNames \in Catalogs(GameNames, MaxCatalog)
    /\ gameMatch = NotRun
    /\ NoCalendar /\ NoReview /\ NoMindMap /\ NoTemplate /\ NoApp

\* the game of the day is looked up in the catalog
FindGame ==
    /\ gameMatch = NotRun
    /\ gameMatch' = [bestMatch |-> findFuzzyGame(gameText, gameNames)]
    /\ UNCHANGED <<gameText, gameNames, calendarVars, reviewVars, mindMapVars, templateVars, appVars>>

NextGames == FindGame

SpecGames == InitGames /\ [][NextGames]_vars

\* the words of at least three characters of the lowercased text, as split at white space
WordsOf(text) == LongWords(ToLowerCase(text))

\* the number of words of the name that are in the word set of the game text
OverlapOf(name) ==
    LET words == WordsOf(name)
        messy == WordsOf(gameText)
    IN  Cardinality({i \in 1..Len(words) : \E k \in 1..Len(messy) : messy[k] = words[i]})

\* the overlap of each name of the catalog
Overlaps == [i \in 1..Len(gameNames) |-> OverlapOf(gameNames[i])]

\* C6: the matched name is the catalog name with the largest number of its words of
\* three or more characters in the word set of the game text, provided that number is
\* at least 1; among the names of maximal overlap the first of the catalog is chosen;
\* when every overlap is 0 there is no match; the game text "play the bee hunt game
\* today" matches "bee hunt" in the catalog "bee hunt", "leaf toss".
C6_FirstMaximalOverlap ==
    gameMatch # NotRun =>
        LET overlap == Overlaps
            best == {i \in 1..Len(gameNames) :
                        /\ overlap[i] >= 1
                        /\ \A j \in 1..Len(gameNames) : overlap[j] <= overlap[i]}
        IN  /\ best = {} => gameMatch.bestMatch = <<>>
            /\ best # {} =>
                    gameMatch.bestMatch = gameNames[CHOOSE i \in best : \A j \in best : i <= j]
            /\ (gameText = ExampleGameText /\ gameNames = ExampleCatalog) =>
                    gameMatch.bestMatch = ExampleCatalog[1]

\* C6 witness: two names of the catalog tie at the largest overlap, which is at least 1,
\* and the first of them was matched, not the second
C6_Witness ==
    /\ gameMatch # NotRun
    /\ LET overlap == Overlaps
       IN  \E i, j \in 1..Len(gameNames) :
            /\ i < j
            /\ overlap[i] >= 1
            /\ overlap[i] = overlap[j]
            /\ \A k \in 1..Len(gameNames) : overlap[k] <= overlap[i]
            /\ gameMatch.bestMatch = gameNames[i]

(***************************************************************************)
(* MindMapParser and the lookup of the learning targets                    *)
(***************************************************************************)
MaxMindMapLines == 4

\* the lines of the mind maps: three week lines, two target lines, a blank line
MindMapLines ==
    {<<"W", "e", "e", "k", " ", "1">>, <<"W", "e", "e", "k", " ", "2">>,
     <<"W", "e", "e", "k", " ", "1", "0">>,
     <<"M", "o", "n", "d", "a", "y", ":", " ", "A">>,
     <<"T", "u", "e", "s", "d", "a", "y", ":", " ", "C">>,
     <<>>}

\* the week labels of the calendar: none, "WEEK 1", "WEEK 2"
WeekLabels == {<<>>, <<"W", "E", "E", "K", " ", "1">>, <<"W", "E", "E", "K", " ", "2">>}

TargetDays == {days[2], days[3]}

InitMindMap ==
    /\ mindMapContent \in {Join(ls, <<"\n">>) : ls \in SeqsUpTo(MindMapLines, MaxMindMapLines)}
    /\ weekLabel \in WeekLabels
    /\ mindMap = NotRun
    /\ targets = NotRun
    /\ NoCalendar /\ NoReview /\ NoGame /\ NoTemplate /\ NoApp

\* the mind map is uploaded and parsed
ParseMindMap ==
    /\ mindMap = NotRun
    /\ mindMap' = MindMapParser(mindMapContent)
    /\ UNCHANGED <<mindMapContent, weekLabel, targets,
                   calendarVars, reviewVars, gameVars, templateVars, appVars>>

\* the targets of a day are looked up; the content of the day is "Bees"
ResolveTargets ==
    /\ mindMap # NotRun
    /\ targets = NotRun
    /\ \E targetDay \in TargetDays :
        LET mindMapMatch == MindMapMatch(mindMap.data, weekLabel, targetDay)
        IN  targets' = [day |-> targetDay,
                        match |-> mindMapMatch,
                        targets |-> Targets(mindMapMatch, Bees)]
    /\ UNCHANGED <<mindMapContent, mindMap, weekLabel,
                   calendarVars, reviewVars, gameVars, templateVars, appVars>>

NextMindMap == ParseMindMap \/ ResolveTargets

SpecMindMap == InitMindMap /\ [][NextMindMap]_vars

\* the digits that follow "week" and white space at the start of a lowercased key or
\* label
WeekNumberOf(text) ==
    LET lower == ToLowerCase(text)
        a == SkipSpace(lower, 4)
    IN  IF Len(lower) >= 4 /\ SubSeq(lower, 1, 4) = WeekWord
        THEN SubSeq(lower, a + 1, SkipDigits(lower, a))
        ELSE <<>>

\* C9: with a week label "WEEK n" the lookup selects only an entry of week n for the
\* day, never an entry of another week; when the mind map has no entry of week n for the
\* day the targets are "Learning targets for <content>".
C9_StrictWeekMatch ==
    (targets # NotRun /\ weekLabel # <<>>) =>
        LET ofWeek == {i \in 1..Len(mindMap.data) :
                        /\ WeekNumberOf(mindMap.data[i].key) = WeekNumberOf(weekLabel)
                        /\ Includes(mindMap.data[i].key, targets.day)}
        IN  /\ targets.match # Null =>
                    WeekNumberOf(targets.match.key) = WeekNumberOf(weekLabel)
            /\ ofWeek = {} => targets.targets = LearningTargetsFor \o Bees

(***************************************************************************)
(* TemplateProcessor on a template and a replacement map                   *)
(***************************************************************************)
MaxTemplateTokens == 4

\* the pieces of the templates: braces, a letter, and the placeholders of two keys
TemplateTokens ==
    {<<"{", "{">>, <<"}", "}">>, <<"{">>, <<"A">>,
     <<"{", "{", "A", "}", "}">>, <<"{", "{", "B", "}", "}">>}

\* the replacement values: empty, a letter, an opening pair of braces, the replacement
\* pattern $' and a placeholder
TemplateValues ==
    {<<>>, <<"A">>, <<"{", "{">>, <<"$", "'">>, <<"{", "{", "B", "}", "}">>}

TemplateKeys == {<<"A">>, <<"B">>}

\* the maps: one entry for key A, or entries for the keys A and B in either order
TemplateMaps ==
    {<<[key |-> <<"A">>, value |-> v]>> : v \in TemplateValues}
        \cup {<<[key |-> k[1], value |-> v], [key |-> k[2], value |-> <<"A">>]>> :
                v \in TemplateValues, k \in {<< <<"A">>, <<"B">> >>, << <<"B">>, <<"A">> >>}}

InitTemplate ==
    /\ templateText \in {Flatten(ts) : ts \in SeqsUpTo(TemplateTokens, MaxTemplateTokens)}
    /\ templateData \in TemplateMaps
    /\ rendered = NotRun
    /\ renderedAgain = NotRun
    /\ NoCalendar /\ NoReview /\ NoGame /\ NoMindMap /\ NoApp

\* the template, a text file or the document of a ZIP, is processed
Render ==
    /\ rendered = NotRun
    /\ \E isZip \in BOOLEAN :
            rendered' = TemplateProcessor(
                            [isZip |-> isZip, document |-> TRUE, text |-> templateText],
                            templateData)
    /\ UNCHANGED <<templateText, templateData, renderedAgain,
                   calendarVars, reviewVars, gameVars, mindMapVars, appVars>>

\* the text produced is processed again as a template, with the same map
RenderAgain ==
    /\ rendered # NotRun
    /\ renderedAgain = NotRun
    /\ renderedAgain' = TemplateProcessor(
                            [isZip |-> rendered.extension = "docx", document |-> TRUE,
                             text |-> rendered.text],
                            templateData)
    /\ UNCHANGED <<templateText, templateData, rendered,
                   calendarVars, reviewVars, gameVars, mindMapVars, appVars>>

NextTemplate == Render \/ RenderAgain

SpecTemplate == InitTemplate /\ [][NextTemplate]_vars

\* the text has "{{", later "}}", and something or nothing between them
PlaceholderShaped(text) ==
    \E i, j \in 1..(Len(text) - 1) :
        /\ i + 2 <= j
        /\ text[i] = "{" /\ text[i + 1] = "{"
        /\ text[j] = "}" /\ text[j + 1] = "}"

\* every "{{" of the text is followed by text without braces and then by "}}"
WellFormedTemplate(text) ==
    \A i \in 1..(Len(text) - 1) :
        (text[i] = "{" /\ text[i + 1] = "{") =>
            \E j \in (i + 2)..(Len(text) - 1) :
                /\ text[j] = "}" /\ text[j + 1] = "}"
                /\ \A k \in (i + 2)..(j - 1) : text[k] \notin {"{", "}"}

\* the text has no brace and no dollar sign
PlainText(text) == \A i \in 1..Len(text) : text[i] \notin {"{", "}", "$"}

\* C10 as amended: for every template in which each "{{" is followed by text without
\* braces and then by "}}", and every replacement map whose keys have no brace and
\* whose values have no brace and no dollar sign, applying the substitution to its own
\* output with the same map returns that output unchanged.
C10_IdempotentOnWellFormed ==
    ( /\ renderedAgain # NotRun
      /\ WellFormedTemplate(templateText)
      /\ \A n \in 1..Len(templateData) :
            /\ PlainText(templateData[n].value)
            /\ \A i \in 1..Len(templateData[n].key) : templateData[n].key[i] \notin {"{", "}"} )
        => renderedAgain.text = rendered.text

\* C10 witness: a well-formed template with the placeholder of a key whose value is
\* plain and not empty was processed twice, and the first pass changed it
C10_Witness ==
    /\ renderedAgain # NotRun
    /\ WellFormedTemplate(templateText)
    /\ \A n \in 1..Len(templateData) : PlainText(templateData[n].value)
    /\ \E n \in 1..Len(templateData) :
            /\ templateData[n].value # <<>>
            /\ Includes(templateText, Placeholder(templateData[n].key))
    /\ rendered.text # templateText
    /\ renderedAgain.text = rendered.text

\* C10 as stated: for every template and every replacement map none of whose values has
\* a {{...}}-shaped part, applying the substitution to its own output with the same map
\* returns that output unchanged.
C10_Idempotent ==
    ( /\ renderedAgain # NotRun
      /\ \A n \in 1..Len(templateData) : ~PlaceholderShaped(templateData[n].value) )
        => renderedAgain.text = rendered.text

(***************************************************************************)
(* CalendarTableParser: the header zone, the keys of the data map and the  *)
(* early returns                                                           *)
(***************************************************************************)
Sunny == <<"S", "u", "n", "n", "y">>

Constructor == <<"C", "o", "n", "s", "t", "r", "u", "c", "t", "o", "r">>

\* a day name, a word that holds the letters of a day, a property name of
\* Object.prototype, the song label and a word of none of these kinds
ZoneTexts == {Monday, Sunny, Constructor, Song, Bees}

\* no word at all, or a row over the zone texts with or without a content row below it
InitZone ==
    /\ ocrWords \in {h \o c : h \in HeaderRows(ZoneTexts), c \in ContentRows}
    /\ calendar = NotRun
    /\ NoOthers

SpecZone == InitZone /\ [][NextCalendar]_vars

\* C11: every key of the data map returned by CalendarTableParser is one of the seven
\* lowercase full day names; the "song" pseudo-column never becomes a key.
C11_KeysAreDayNames ==
    Parsed => \A key \in DOMAIN calendar.data : \E i \in 1..7 : key = days[i]

\* the song column held a content of more than 3 characters
SongRecovered ==
    /\ calendar.headerFound
    /\ \E i \in 1..Len(calendar.cols) :
            /\ calendar.cols[i].isSong
            /\ Len(ColumnContent(calendar.cols[i], calendar.contentRows)) > 3

\* the week detection of step 3 ran and found a week
WeekRecovered == calendar.headerFound /\ ExtractWeek(SortByY0(ocrWords)) # <<>>

\* C12: when no song label is recovered the returned song is "Song of the Week", and
\* when no week is recovered the returned week is the empty string, on every return
\* path, the empty input and the input without a header row included.
C12_SongAndWeekDefaults ==
    Parsed =>
        /\ ~SongRecovered => calendar.song = SongOfTheWeek
        /\ ~WeekRecovered => calendar.week = <<>>

\* C13: for every non-empty input the data map holds at least one day; when no header
\* row is found the raw text is assigned to every day named in it, to monday otherwise.
C13_NonEmptyInputHasDay ==
    (Parsed /\ ocrWords # <<>>) =>
        /\ DOMAIN calendar.data # {}
        /\ ~calendar.headerFound =>
                LET sorted == SortByY0(ocrWords)
                    allText == Join([i \in 1..Len(sorted) |-> sorted[i].text], <<" ">>)
                IN  calendar.data = FallbackData(<<>>, allText)

\* the words of a row that are a day token: a full day name or a three-letter
\* abbreviation as the whole word, in any case
DayTokens(row) ==
    {k \in 1..Len(row.words) :
        \E i \in 1..7 : ToLowerCase(row.words[k].text) \in {days[i], abbreviations[i]}}

\* C20: a row is taken as a header row only if it holds at least two day tokens; a row
\* with fewer, or with the letters of a day inside a longer word, is never a header row.
C20_HeaderNeedsTwoDayTokens ==
    Parsed =>
        \A r \in HeaderRowIndices(calendar.rows) :
            Cardinality(DayTokens(calendar.rows[r])) >= 2

(***************************************************************************)
(* storage.ts: store operations that fail                                  *)
(***************************************************************************)
\* the values saved under a key and the lists of set names
SavedValues == {0, 1}

NameLists == {<<>>, <<"a">>, <<"b">>, <<"a", "b">>, <<"b", "a">>}

InitStorage ==
    /\ idb = EmptyStore
    /\ returned = NotRun
    /\ NoCalendar /\ NoReview /\ NoGame /\ NoMindMap /\ NoTemplate
    /\ NoSession /\ NoAi

\* what is kept of the result r of the function op, called with a store operation
\* that fails or not
Outcome(op, fails, r) == [op |-> op, failed |-> fails, threw |-> r.threw, value |-> r.value]

SaveAppState ==
    \E value \in SavedValues, fails \in BOOLEAN :
        LET r == saveAppState(idb, "app_spiral_index", value, fails)
        IN  /\ idb' = r.idb
            /\ returned' = Outcome("saveAppState", fails, r)
            /\ UNCHANGED <<sessionVars, aiVars,
                           calendarVars, reviewVars, gameVars, mindMapVars, templateVars>>

LoadAppState ==
    \E fails \in BOOLEAN :
        LET r == loadAppState(idb, "app_spiral_index", fails)
        IN  /\ idb' = r.idb
            /\ returned' = Outcome("loadAppState", fails, r)
            /\ UNCHANGED <<sessionVars, aiVars,
                           calendarVars, reviewVars, gameVars, mindMapVars, templateVars>>

ClearAppState ==
    \E fails \in BOOLEAN :
        LET r == clearAppState(idb, "app_spiral_index", fails)
        IN  /\ idb' = r.idb
            /\ returned' = Outcome("clearAppState", fails, r)
            /\ UNCHANGED <<sessionVars, aiVars,
                           calendarVars, reviewVars, gameVars, mindMapVars, templateVars>>

ListSets ==
    \E fails \in BOOLEAN :
        LET r == listSets(idb, fails)
        IN  /\ idb' = r.idb
            /\ returned' = Outcome("listSets", fails, r)
            /\ UNCHANGED <<sessionVars, aiVars,
                           calendarVars, reviewVars, gameVars, mindMapVars, templateVars>>

SaveSetMetadata ==
    \E names \in NameLists, fails \in BOOLEAN :
        LET r == saveSetMetadata(idb, names, fails)
        IN  /\ idb' = r.idb
            /\ returned' = Outcome("saveSetMetadata", fails, r)
            /\ UNCHANGED <<sessionVars, aiVars,
                           calendarVars, reviewVars, gameVars, mindMapVars, templateVars>>

NextStorage == SaveAppState \/ LoadAppState \/ ClearAppState \/ ListSets \/ SaveSetMetadata

SpecStorage == InitStorage /\ [][NextStorage]_vars

\* C17: no storage function throws when the store operation fails: a failing
\* loadAppState returns null, a failing listSets the empty list, and a failing
\* saveAppState, clearAppState or saveSetMetadata completes without a change and
\* without an error.
C17_StoreFailuresNeverThrown ==
    (returned # NotRun /\ returned.failed) =>
        /\ ~returned.threw
        /\ returned.op = "loadAppState" => returned.value = Null
        /\ returned.op = "listSets" => returned.value = [value |-> <<>>]

(***************************************************************************)
(* AdvancedLessonPlanSynthesizer on the answers of the provider            *)
(***************************************************************************)
\* the keys of the lesson plan the prompt asks for
LessonPlanKeys ==
    << <<"a", "c", "t", "i", "v", "i", "t", "y", "N", "a", "m", "e">>,
       <<"o", "b", "j", "e", "c", "t", "i", "v", "e", "s">>,
       <<"m", "a", "t", "e", "r", "i", "a", "l", "s">>,
       <<"i", "n", "t", "r", "o", "d", "u", "c", "t", "i", "o", "n">>,
       <<"a", "c", "t", "i", "v", "i", "t", "y">>,
       <<"g", "a", "m", "e">>,
       <<"c", "l", "o", "s", "u", "r", "e">> >>

\* the text of the object with the given lesson plan keys (a set of indices), each
\* with the value "x"
ObjectText(keys) ==
    LET present == SelectSeq([i \in 1..7 |-> i], LAMBDA i : i \in keys)
        Member(i) == <<"\"">> \o LessonPlanKeys[i] \o <<"\"", ":", " ", "\"", "x", "\"">>
    IN  <<"{">> \o Join([n \in 1..Len(present) |-> Member(present[n])], <<",">>) \o <<"}">>

\* answers that are JSON but not an object, and answers that are not JSON
OtherTexts ==
    {<<"[", "]">>, <<"4", "2">>, <<"n", "u", "l", "l">>, <<"\"", "o", "k", "\"">>,
     <<"[", "1", ",", " ", "{", "}", "]">>,
     <<"o", "o", "p", "s">>, <<"{">>, <<"{", "\"", "g", "a", "m", "e", "\"", "}">>,
     <<"0", "1">>, <<"{", "}", "}">>, <<>>}

\* an answer as it is, or in a markdown block
InBlock(text) == JsonFence \o <<"\n">> \o text \o <<"\n">> \o Fence

AnswerTexts ==
    LET texts == {ObjectText(keys) : keys \in SUBSET (1..7)} \cup OtherTexts
    IN  texts \cup {InBlock(text) : text \in texts}

\* the bodies: an error, no answer, or one answer
ResponseBodies ==
    {[error |-> TRUE, choices |-> <<>>], [error |-> FALSE, choices |-> <<>>]}
        \cup {[error |-> FALSE, choices |-> <<text>>] : text \in AnswerTexts}

InitSynth ==
    /\ configProvider \in {"openai", "gemini"}
    /\ responseData \in ResponseBodies
    /\ synthData = NotRun
    /\ NoCalendar /\ NoReview /\ NoGame /\ NoMindMap /\ NoTemplate
    /\ NoSession /\ NoStorage

Synthesize ==
    /\ synthData = NotRun
    /\ synthData' = AdvancedLessonPlanSynthesizer(responseData, configProvider)
    /\ UNCHANGED <<configProvider, responseData, sessionVars, storageVars,
                   calendarVars, reviewVars, gameVars, mindMapVars, templateVars>>

NextSynth == Synthesize

SpecSynth == InitSynth /\ [][NextSynth]_vars

\* the text handed to JSON.parse
ResultText == getResponse(responseData, configProvider).text

\* C18: AdvancedLessonPlanSynthesizer returns normally only with a JSON object that
\* carries the seven keys activityName, objectives, materials, introduction, activity,
\* game and closure; when the provider reports an error or the answer is not
\* parseable as JSON it fails with an error.
C18_ReturnsLessonPlanOrFails ==
    synthData # NotRun =>
        /\ synthData.error = "" =>
                /\ synthData.value.kind = "object"
                /\ \A i \in 1..7 :
                        \E k \in 1..Len(synthData.value.keys) :
                            synthData.value.keys[k] = LessonPlanKeys[i]
        /\ (responseData.error \/ ~JSONParse(ResultText).ok) => synthData.error # ""

(***************************************************************************)
(* The application: uploads, pasted images, settings, generateLessonPlan   *)
(* and document sets                                                       *)
(***************************************************************************)
\* the texts of the messages
LoadedMessage == "Successfully loaded"

LoadErrorMessage == "Error loading"

MissingFilesMessage == "Please upload all required files"

MissingKeyMessage == "Please set your API Key in Settings first."

NoScheduleMessage == "Could not find schedule data"

SuccessMessage == "Success! Generated"

FailedMessage == "Synthesis failed"

\* the message of the user: userText, or "Pasted Image" when the text is empty
TypedMessage == "userText"

PastedImageMessage == "Pasted Image"

OcrMessage == "OCR-ing pasted image..."

PastedMessage == "Pasted calendar processed."

SavedMessage == "Document set saved successfully."

SwitchedMessage == "Switched to document set"

\* the files the user uploads
MindMapFiles ==
    {<<"W", "e", "e", "k", " ", "1", "\n", "M", "o", "n", "d", "a", "y", ":", " ", "A">>}

GamesListFiles == {<<"B", "e", "e", " ", "h", "u", "n", "t", ":", " ", "A">>}

\* review files of no and of two sentences
SpiralReviewFiles == {<<"\n">>, <<"a", "\n", "\n", "b">>}

\* a text template, and an archive without word/document.xml
TemplateFiles ==
    {[isZip |-> FALSE, document |-> FALSE, text |-> <<"{", "{", "D", "A", "Y", "}", "}">>],
     [isZip |-> TRUE, document |-> FALSE, text |-> <<>>]}

\* the words recognised in the calendar images: a Monday column, a Tuesday column
CalendarScans ==
    {<<Word(Monday, 10, 10, 40, 30), Word(Bees, 10, 40, 40, 60)>>,
     <<Word(Tuesday, 10, 10, 40, 30), Word(Bees, 10, 40, 40, 60)>>}

\* the images of a calendar, and an image on which the OCR call fails
CalendarImages ==
    {[readable |-> TRUE, words |-> scan] : scan \in CalendarScans}
        \cup {[readable |-> FALSE, words |-> <<>>]}

\* the answers of the provider to a generation: an error, or a lesson plan
AppResponses ==
    {[error |-> TRUE, choices |-> <<>>],
     [error |-> FALSE, choices |-> <<ObjectText(1..7)>>]}

\* the names typed in the dialog that saves a document set
TypedNames == {"a"}

FileTypes == {"mindMap", "calendar", "gamesList", "spiralReview", "template"}

\* the most handler runs that wait for an external call at a time
MaxInFlight == 2

\* the most generations that advance the cursor
MaxGenerations == 2

\* the variables of the functions that are checked on their own
functionVars ==
    <<calendarVars, reviewVars, gameVars, mindMapVars, templateVars, aiVars, returned>>

Remove(s, i) == SubSeq(s, 1, i - 1) \o SubSeq(s, i + 1, Len(s))

\* what the parsers, the synthesizer and the template processor give for the files,
\* the scans and the answers above, computed once
CalendarSlot(parsed) == [data |-> parsed.data, song |-> parsed.song, week |-> parsed.week]

CalendarSlots == [ocrData \in CalendarScans |-> CalendarSlot(CalendarTableParser(ocrData))]

MindMapSlots == [file \in MindMapFiles |-> MindMapParser(file)]

GamesListSlots == [file \in GamesListFiles |-> [entries |-> GamesListParser(file)]]

SpiralReviewSlots == [file \in SpiralReviewFiles |-> [items |-> SpiralReviewParser(file)]]

SynthResults ==
    [provider \in {"openai", "gemini"} |->
        [response \in AppResponses |-> AdvancedLessonPlanSynthesizer(response, provider)]]

TemplateResults == [template \in TemplateFiles |-> TemplateProcessor(template, <<>>)]

\* the first render has been committed and its effects have run
Mounted == hydration # "mount"

\* setFiles(prev => ({ ...prev, [type]: value })) with the slot alone kept
SetSlotAlone(slots, type, value) == [t \in FileTypes |-> IF t = type THEN value ELSE Null]

\* setFiles(prev => ({ ...prev, [type]: value }))
SetSlot(slots, type, value) == [slots EXCEPT ![type] = value]

\* the cursor after hydration from a store that never held one, and the cursor after
\* a generation that read such a cursor: undefined and NaN, written as negative numbers
UndefinedIndex == -1

NaNIndex == -2

\* review.nextIndex for the list and the cursor of the application
NextCursor(l, index, recentIndex) ==
    IF index < 0 /\ l # <<>> THEN NaNIndex
    ELSE GetSpiralReviewItems(l, index, recentIndex).nextIndex

\* the four keys under which the state of the application is persisted
AppKeys == {"app_files", "app_config", "app_spiral_index", "app_messages"}

\* the value a persistence effect saves: the state after the step; of the messages
\* the texts the step appended are kept
PersistedValue(key) ==
    CASE key = "app_files" -> files'
      [] key = "app_config" -> [apiKey |-> apiKey', provider |-> configProvider']
      [] key = "app_spiral_index" -> spiralIndex'
      [] key = "app_messages" -> [tail |-> appended']

\* the keys whose effect runs after the step: files and config are new objects whenever
\* their setter is called, the cursor is compared by value, messages are appended
Touched(filesSet, configSet) ==
    (IF filesSet THEN {"app_files"} ELSE {})
        \cup (IF configSet THEN {"app_config"} ELSE {})
        \cup (IF spiralIndex' # spiralIndex THEN {"app_spiral_index"} ELSE {})
        \cup (IF appended' # <<>> THEN {"app_messages"} ELSE {})

\* saveAppState(key, value) of one effect; the write is taken to succeed
SaveKey(store, key, touched) ==
    IF key \in touched THEN saveAppState(store, key, PersistedValue(key), FALSE).idb
    ELSE store

\* the store after the effects of the touched keys
Effects(store, touched) ==
    SaveKey(SaveKey(SaveKey(SaveKey(store, "app_files", touched), "app_config", touched),
                    "app_spiral_index", touched),
            "app_messages", touched)

\* the persistence effects after a step that leaves the store as `store`:
\* if (!isHydrated.current) return; saveAppState(key, value)
Persist(store, touched) == idb' = (IF isHydrated THEN Effects(store, touched) ELSE store)

Init ==
    /\ NoSession
    /\ NoStorage /\ NoAi
    /\ NoCalendar /\ NoReview /\ NoGame /\ NoMindMap /\ NoTemplate

\* handleFileUpload('template', file) when file.arrayBuffer() gives the buffer
UploadTemplate ==
    /\ Mounted
    /\ \E file \in TemplateFiles : files' = SetSlot(files, "template", file)
    /\ appended' = <<LoadedMessage>>
    /\ UNCHANGED <<apiKey, spiralIndex, configOpen, inFlight, savedSetNames, hydrationVars,
                   lastStarted, functionVars>>
    /\ Persist(idb, Touched(TRUE, FALSE))

\* handleFileUpload('mindMap', file) when file.text() gives the text
UploadMindMap ==
    /\ Mounted
    /\ \E file \in MindMapFiles : files' = SetSlot(files, "mindMap", MindMapSlots[file])
    /\ appended' = <<LoadedMessage>>
    /\ UNCHANGED <<apiKey, spiralIndex, configOpen, inFlight, savedSetNames, hydrationVars,
                   lastStarted, functionVars>>
    /\ Persist(idb, Touched(TRUE, FALSE))

\* handleFileUpload('gamesList', file); the games list is held as its entries
UploadGamesList ==
    /\ Mounted
    /\ \E file \in GamesListFiles :
            files' = SetSlot(files, "gamesList", GamesListSlots[file])
    /\ appended' = <<LoadedMessage>>
    /\ UNCHANGED <<apiKey, spiralIndex, configOpen, inFlight, savedSetNames, hydrationVars,
                   lastStarted, functionVars>>
    /\ Persist(idb, Touched(TRUE, FALSE))

\* handleFileUpload('spiralReview', file); the review list is held as its items
UploadSpiralReview ==
    /\ Mounted
    /\ \E file \in SpiralReviewFiles :
            files' = SetSlot(files, "spiralReview", SpiralReviewSlots[file])
    /\ appended' = <<LoadedMessage>>
    /\ UNCHANGED <<apiKey, spiralIndex, configOpen, inFlight, savedSetNames, hydrationVars,
                   lastStarted, functionVars>>
    /\ Persist(idb, Touched(TRUE, FALSE))

\* handleFileUpload(type, file) when reading the file throws
UploadFails ==
    /\ Mounted
    /\ appended' = <<LoadErrorMessage>>
    /\ UNCHANGED <<files, apiKey, spiralIndex, configOpen, inFlight, savedSetNames,
                   hydrationVars, lastStarted, functionVars>>
    /\ Persist(idb, Touched(FALSE, FALSE))

\* handleFileUpload('calendar', file) up to the await of OCRProcessor(file); the runs
\* in flight are capped at MaxInFlight
UploadCalendar ==
    /\ Mounted
    /\ Len(inFlight) < MaxInFlight
    /\ \E file \in CalendarImages :
            /\ inFlight' = Append(inFlight, [handler |-> "handleFileUpload", file |-> file])
            /\ lastStarted' = file
    /\ appended' = <<>>
    /\ UNCHANGED <<files, apiKey, spiralIndex, configOpen, savedSetNames, hydrationVars,
                   functionVars>>
    /\ Persist(idb, Touched(FALSE, FALSE))

\* handleFileUpload('calendar', file) from the await on: the OCR call of a run in
\* flight returns or throws
FinishUpload ==
    /\ Mounted
    /\ \E i \in 1..Len(inFlight) :
        /\ inFlight[i].handler = "handleFileUpload"
        /\ IF OCRProcessor(inFlight[i].file).error = ""
           THEN /\ files' = SetSlot(files, "calendar",
                                    CalendarSlots[OCRProcessor(inFlight[i].file).data])
                /\ appended' = <<LoadedMessage>>
           ELSE /\ files' = files
                /\ appended' = <<LoadErrorMessage>>
        /\ inFlight' = Remove(inFlight, i)
        /\ UNCHANGED <<apiKey, spiralIndex, configOpen, savedSetNames, hydrationVars,
                       lastStarted, functionVars>>
        /\ Persist(idb, Touched(OCRProcessor(inFlight[i].file).error = "", FALSE))

\* handleSendMessage with a pasted image and no text, up to the await of OCRProcessor
SendPastedImage ==
    /\ Mounted
    /\ Len(inFlight) < MaxInFlight
    /\ \E file \in CalendarImages :
            /\ inFlight' = Append(inFlight, [handler |-> "handleSendMessage", file |-> file])
            /\ lastStarted' = file
    /\ appended' = <<PastedImageMessage, OcrMessage>>
    /\ UNCHANGED <<files, apiKey, spiralIndex, configOpen, savedSetNames, hydrationVars,
                   functionVars>>
    /\ Persist(idb, Touched(FALSE, FALSE))

\* handleSendMessage with a pasted image from the await on; the await is in no try
\* block, so when the OCR call throws the run ends there
FinishPastedImage ==
    /\ Mounted
    /\ \E i \in 1..Len(inFlight) :
        /\ inFlight[i].handler = "handleSendMessage"
        /\ IF OCRProcessor(inFlight[i].file).error = ""
           THEN /\ files' = SetSlot(files, "calendar",
                                    CalendarSlots[OCRProcessor(inFlight[i].file).data])
                /\ appended' = <<PastedMessage>>
           ELSE /\ files' = files
                /\ appended' = <<>>
        /\ inFlight' = Remove(inFlight, i)
        /\ UNCHANGED <<apiKey, spiralIndex, configOpen, savedSetNames, hydrationVars,
                       lastStarted, functionVars>>
        /\ Persist(idb, Touched(OCRProcessor(inFlight[i].file).error = "", FALSE))

\* handleSendMessage with a text that does not hold "generate" and no pasted image
SendMessage ==
    /\ Mounted
    /\ appended' = <<TypedMessage>>
    /\ UNCHANGED <<files, apiKey, spiralIndex, configOpen, inFlight, savedSetNames,
                   hydrationVars, lastStarted, functionVars>>
    /\ Persist(idb, Touched(FALSE, FALSE))

\* the API key field of the settings dialog is edited
SetApiKey ==
    /\ Mounted
    /\ \E key \in {<<>>, <<"k">>} : apiKey' = key
    /\ appended' = <<>>
    /\ UNCHANGED <<files, spiralIndex, configOpen, inFlight, savedSetNames, hydrationVars,
                   lastStarted, functionVars>>
    /\ Persist(idb, Touched(FALSE, TRUE))

\* the settings dialog is opened or closed
SetConfigOpen ==
    /\ Mounted
    /\ \E open \in BOOLEAN : configOpen' = open
    /\ appended' = <<>>
    /\ UNCHANGED <<files, apiKey, spiralIndex, inFlight, savedSetNames, hydrationVars,
                   lastStarted, functionVars>>
    /\ Persist(idb, Touched(FALSE, FALSE))

\* the guards of generateLessonPlan without the test of the API key
RejectionWithoutKey(targetDay) ==
    IF \E type \in FileTypes : files[type] = Null THEN MissingFilesMessage
    ELSE IF targetDay \notin DOMAIN files.calendar.data THEN NoScheduleMessage
    ELSE ""

\* the guards of generateLessonPlan: the message of the guard that rejects the command
\* for targetDay, or "" when the command passes them
Rejection(targetDay) ==
    IF \E type \in FileTypes : files[type] = Null THEN MissingFilesMessage
    ELSE IF apiKey = <<>> THEN MissingKeyMessage
    ELSE IF targetDay \notin DOMAIN files.calendar.data THEN NoScheduleMessage
    ELSE ""

\* handleSendMessage with a text that holds "generate", and generateLessonPlan(query)
\* up to the await of the AI call: targetDay is the day named in the query, response
\* the answer the provider will give; the run keeps the day, the template and the
\* cursor it read; the cursor is capped at MaxGenerations and the runs in flight at
\* MaxInFlight
GenerateLessonPlan ==
    /\ Mounted
    /\ \E targetDay \in TargetDays, response \in AppResponses :
        /\ IF Rejection(targetDay) # ""
           THEN /\ appended' = <<TypedMessage, Rejection(targetDay)>>
                /\ configOpen' = (configOpen \/ Rejection(targetDay) = MissingKeyMessage)
                /\ UNCHANGED <<spiralIndex, inFlight>>
           ELSE /\ spiralIndex < MaxGenerations
                /\ Len(inFlight) < MaxInFlight
                /\ \E recentIndex \in (IF files.spiralReview.items = <<>> THEN {0}
                                       ELSE RecentIndices(files.spiralReview.items)) :
                       spiralIndex' = NextCursor(files.spiralReview.items, spiralIndex,
                                                 recentIndex)
                /\ inFlight' = Append(inFlight,
                                      [handler |-> "generateLessonPlan",
                                       targetDay |-> targetDay,
                                       template |-> files.template,
                                       spiralIndex |-> spiralIndex,
                                       response |-> response])
                /\ appended' = <<TypedMessage>>
                /\ UNCHANGED configOpen
        /\ UNCHANGED <<files, apiKey, savedSetNames, hydrationVars, lastStarted, functionVars>>
        /\ Persist(idb, Touched(FALSE, FALSE))

\* whether the run ends with the Success message: the AI call returned, the fields of
\* its answer could be read and TemplateProcessor returned
Succeeded(synth, result) ==
    /\ synth.error = ""
    /\ synth.value.kind # "null"
    /\ "error" \notin DOMAIN result

\* generateLessonPlan from the await of the AI call on: the call returns or throws,
\* the fields of the answer are read (which throws on null) and TemplateProcessor
\* fills the template the run read; whether TemplateProcessor throws does not depend
\* on the values it is given
FinishGeneration ==
    /\ Mounted
    /\ \E i \in 1..Len(inFlight) :
        /\ inFlight[i].handler = "generateLessonPlan"
        /\ appended' =
               <<IF Succeeded(SynthResults[configProvider][inFlight[i].response],
                              TemplateResults[inFlight[i].template])
                 THEN SuccessMessage ELSE FailedMessage>>
        /\ inFlight' = Remove(inFlight, i)
        /\ UNCHANGED <<files, apiKey, spiralIndex, configOpen, savedSetNames, hydrationVars,
                       lastStarted, functionVars>>
        /\ Persist(idb, Touched(FALSE, FALSE))

\* handleSaveSet for the name typed in the dialog: the bundle is saved under the key of
\* the set (a failure of the store is swallowed), the name is added to the names and
\* the names are saved; when saveSetMetadata throws the handler ends there
SaveSet ==
    /\ Mounted
    /\ \E name \in TypedNames, bundleFails \in BOOLEAN, namesFail \in BOOLEAN :
        LET bundle == [files |-> files, spiralIndex |-> spiralIndex]
            newSets == IF \E k \in 1..Len(savedSetNames) : savedSetNames[k] = name
                       THEN savedSetNames ELSE Append(savedSetNames, name)
            saved == saveAppState(idb, DocsetKey(name), bundle, bundleFails)
            named == saveSetMetadata(saved.idb, newSets, namesFail)
        IN  /\ savedSetNames' = newSets
            /\ appended' = (IF named.threw THEN <<>> ELSE <<SavedMessage>>)
            /\ UNCHANGED <<files, apiKey, spiralIndex, configOpen, inFlight, hydrationVars,
                           lastStarted, functionVars>>
            /\ Persist(named.idb, Touched(FALSE, FALSE))

\* handleLoadSet(name) for a name of the list: the documents and the cursor of the
\* bundle replace the current ones when loadAppState gives a bundle
LoadSet ==
    /\ Mounted
    /\ \E k \in 1..Len(savedSetNames), fails \in BOOLEAN :
        LET bundle == loadAppState(idb, DocsetKey(savedSetNames[k]), fails).value
        IN  /\ IF bundle \notin {Null, Undefined}
               THEN /\ files' = bundle.value.files
                    /\ spiralIndex' = bundle.value.spiralIndex
                    /\ appended' = <<SwitchedMessage>>
               ELSE /\ appended' = <<>>
                    /\ UNCHANGED <<files, spiralIndex>>
            /\ UNCHANGED <<apiKey, configOpen, inFlight, savedSetNames, hydrationVars,
                           lastStarted, functionVars>>
            /\ Persist(idb, Touched(bundle \notin {Null, Undefined}, FALSE))

\* savedFiles.mindMap.data is truthy: the wrapper key of the current shape, or an own
\* key "data" with a non-empty target in a map saved in the old shape
MindMapHasData(slot) ==
    IF "data" \in DOMAIN slot THEN TRUE
    ELSE \E k \in 1..Len(slot.entries) :
            slot.entries[k].key = <<"d", "a", "t", "a">> /\ slot.entries[k].value # <<>>

\* savedFiles.calendar.data is truthy: the wrapper key of the current shape, or an own
\* key "data" of a calendar saved in the old shape
CalendarHasData(slot) ==
    IF "data" \in DOMAIN slot THEN TRUE
    ELSE <<"d", "a", "t", "a">> \in DOMAIN slot.entries

\* the mind map of the saved documents left as it was saved
KeepMindMap(slot) == slot

\* savedFiles.mindMap after the migration: a map saved in the old shape (held as its
\* entries) becomes the data of a mind map with an empty date
UpgradeMindMap(slot) ==
    IF slot # Null /\ ~MindMapHasData(slot) THEN [data |-> slot.entries, date |-> <<>>]
    ELSE slot

\* savedFiles.calendar after the migration
UpgradeCalendar(slot) ==
    IF slot # Null /\ ~CalendarHasData(slot)
    THEN [data |-> slot.entries, song |-> SongOfTheWeek, week |-> <<>>]
    ELSE slot

\* savedFiles after the two migrations
UpgradeFiles(saved) ==
    [saved EXCEPT !.mindMap = UpgradeMindMap(saved.mindMap),
                  !.calendar = UpgradeCalendar(saved.calendar)]

\* a value loaded from the store is truthy: neither null nor undefined
Truthy(loaded) == loaded \notin {Null, Undefined}

\* the effects of the first render: initPersistence runs up to its first await, and
\* the four persistence effects run with the initial state
Mount ==
    /\ hydration = "mount"
    /\ hydration' = "app_files"
    /\ UNCHANGED <<files, apiKey, spiralIndex, configOpen, appended, inFlight, savedSetNames,
                   isHydrated, lastStarted, functionVars>>
    /\ Persist(idb, AppKeys)

\* initPersistence from the load of app_files to the next await
LoadFiles ==
    /\ hydration = "app_files"
    /\ hydration' = "app_config"
    /\ \E fails \in BOOLEAN :
            files' = (IF Truthy(loadAppState(idb, "app_files", fails).value)
                      THEN UpgradeFiles(loadAppState(idb, "app_files", fails).value.value)
                      ELSE files)
    /\ UNCHANGED <<apiKey, spiralIndex, configOpen, appended, inFlight, savedSetNames,
                   isHydrated, lastStarted, functionVars>>
    /\ Persist(idb, IF files' # files THEN {"app_files"} ELSE {})

\* initPersistence from the load of app_config to the next await
LoadConfig ==
    /\ hydration = "app_config"
    /\ hydration' = "app_spiral_index"
    /\ \E fails \in BOOLEAN :
            IF Truthy(loadAppState(idb, "app_config", fails).value)
            THEN /\ apiKey' = loadAppState(idb, "app_config", fails).value.value.apiKey
                 /\ configProvider' = loadAppState(idb, "app_config", fails).value.value.provider
            ELSE UNCHANGED <<apiKey, configProvider>>
    /\ UNCHANGED <<files, spiralIndex, configOpen, appended, inFlight, savedSetNames,
                   isHydrated, lastStarted, calendarVars, reviewVars, gameVars, mindMapVars,
                   templateVars, responseData, synthData, returned>>
    /\ Persist(idb, IF apiKey' # apiKey \/ configProvider' # configProvider
                    THEN {"app_config"} ELSE {})

\* initPersistence from the load of app_spiral_index to the next await: the cursor is
\* set unless the load gave null, also when the store holds no cursor
LoadSpiralIndex ==
    /\ hydration = "app_spiral_index"
    /\ hydration' = "app_messages"
    /\ \E fails \in BOOLEAN :
            spiralIndex' =
                (IF loadAppState(idb, "app_spiral_index", fails).value = Null THEN spiralIndex
                 ELSE IF loadAppState(idb, "app_spiral_index", fails).value = Undefined
                 THEN UndefinedIndex
                 ELSE loadAppState(idb, "app_spiral_index", fails).value.value)
    /\ UNCHANGED <<files, apiKey, configOpen, appended, inFlight, savedSetNames, isHydrated,
                   lastStarted, functionVars>>
    /\ Persist(idb, IF spiralIndex' # spiralIndex THEN {"app_spiral_index"} ELSE {})

\* initPersistence from the load of app_messages to the next await: the saved messages
\* replace the messages, and their tail is the tail of the messages
LoadMessages ==
    /\ hydration = "app_messages"
    /\ hydration' = "listSets"
    /\ \E fails \in BOOLEAN :
            appended' = (IF Truthy(loadAppState(idb, "app_messages", fails).value)
                         THEN loadAppState(idb, "app_messages", fails).value.value.tail
                         ELSE appended)
    /\ UNCHANGED <<files, apiKey, spiralIndex, configOpen, inFlight, savedSetNames, isHydrated,
                   lastStarted, functionVars>>
    /\ Persist(idb, IF appended' # appended THEN {"app_messages"} ELSE {})

\* initPersistence from listSets to its end
FinishHydration ==
    /\ hydration = "listSets"
    /\ hydration' = "done"
    /\ \E fails \in BOOLEAN : savedSetNames' = listSets(idb, fails).value.value
    /\ isHydrated' = TRUE
    /\ UNCHANGED <<files, apiKey, spiralIndex, configOpen, appended, inFlight, lastStarted,
                   functionVars>>
    /\ idb' = idb

Next ==
    \/ UploadTemplate \/ UploadMindMap \/ UploadGamesList \/ UploadSpiralReview
    \/ UploadFails \/ UploadCalendar \/ FinishUpload
    \/ SendPastedImage \/ FinishPastedImage \/ SendMessage
    \/ SetApiKey \/ SetConfigOpen
    \/ GenerateLessonPlan \/ FinishGeneration
    \/ SaveSet \/ LoadSet
    \/ Mount \/ LoadFiles \/ LoadConfig \/ LoadSpiralIndex \/ LoadMessages \/ FinishHydration

\* the application from its construction on
Spec == Init /\ [][Next]_vars

\* a session in which the five documents are uploaded and the API key is set
\* the store of a hydrated session in which every effect has saved its value
PersistedStore ==
    [key \in StoreKeys |->
        IF key = "app_files" THEN [value |-> files]
        ELSE IF key = "app_config" THEN [value |-> [apiKey |-> apiKey, provider |-> configProvider]]
        ELSE IF key = "app_spiral_index" THEN [value |-> spiralIndex]
        ELSE IF key = "app_messages" THEN [value |-> [tail |-> appended]]
        ELSE Undefined]

InitLoaded ==
    /\ files \in [mindMap : {MindMapSlots[file] : file \in MindMapFiles},
                  calendar : {CalendarSlots[ocrData] : ocrData \in CalendarScans},
                  gamesList : {GamesListSlots[file] : file \in GamesListFiles},
                  spiralReview : {SpiralReviewSlots[file] : file \in SpiralReviewFiles},
                  template : TemplateFiles]
    /\ apiKey = <<"k">>
    /\ spiralIndex = 0
    /\ configOpen = FALSE
    /\ appended = <<LoadedMessage>>
    /\ inFlight = <<>>
    /\ savedSetNames = <<>>
    /\ isHydrated = TRUE
    /\ hydration = "done"
    /\ lastStarted = Null
    /\ NoAi
    /\ idb = PersistedStore
    /\ returned = NotRun
    /\ NoCalendar /\ NoReview /\ NoGame /\ NoMindMap /\ NoTemplate

\* the runs of that session: uploads, pasted images and generations
NextRuns ==
    \/ UploadTemplate \/ UploadSpiralReview
    \/ UploadCalendar \/ FinishUpload
    \/ SendPastedImage \/ FinishPastedImage
    \/ GenerateLessonPlan \/ FinishGeneration

SpecRuns == InitLoaded /\ [][NextRuns]_vars

\* the document sets of that session
NextSets ==
    \/ UploadSpiralReview
    \/ GenerateLessonPlan \/ FinishGeneration
    \/ SaveSet \/ LoadSet

SpecSets == InitLoaded /\ [][NextSets]_vars

\* C5: GetSpiralReviewItems([], n) returns the "no items" sentence for every cursor n,
\* and a generation run with an empty review list leaves the review cursor of the
\* application at the value it had before the run.
C5_EmptyListKeepsCursor ==
    [][(files.spiralReview # Null /\ files.spiralReview.items = <<>>) =>
            /\ GetSpiralReviewItems(<<>>, spiralIndex, 0).sentence = NoItems
            /\ spiralIndex' = spiralIndex]_vars

\* the runs in flight of a handler among the given ones
RunsOf(handlers) == {i \in 1..Len(inFlight) : inFlight[i].handler \in handlers}

\* C14: the runs are serialized: at no time are two calendar parses (of an uploaded or
\* of a pasted image) in flight, and at no time are two generations in flight.
C14_RunsAreSerialized ==
    /\ Cardinality(RunsOf({"handleFileUpload", "handleSendMessage"})) <= 1
    /\ Cardinality(RunsOf({"generateLessonPlan"})) <= 1

\* the AI call of a generation run gives a lesson plan
PlanReturned(run) ==
    LET synth == SynthResults[configProvider][run.response]
    IN  synth.error = "" /\ synth.value.kind # "null"

\* TemplateProcessor throws on the template a generation run read
TemplateFails(run) == "error" \in DOMAIN TemplateResults[run.template]

\* C15: a generate command that fails on the shape of its input commits nothing: when
\* a required document is missing, and when the only run in flight is a generation
\* whose template cannot be processed, the command ends with one descriptive message
\* and the documents and the review cursor are what they were before the command.
C15_InputErrorsCommitNothing ==
    [][/\ (appended' = <<TypedMessage, MissingFilesMessage>>) =>
                (files' = files /\ spiralIndex' = spiralIndex)
       /\ (/\ Len(inFlight) = 1
           /\ inFlight' = <<>>
           /\ inFlight[1].handler = "generateLessonPlan"
           /\ PlanReturned(inFlight[1])
           /\ TemplateFails(inFlight[1])) =>
                /\ appended' = <<FailedMessage>>
                /\ files' = files
                /\ spiralIndex' = inFlight[1].spiralIndex]_vars

\* the external call of a run in flight fails: the OCR call throws, or the AI call does
CallFails(run) ==
    IF run.handler = "generateLessonPlan"
    THEN SynthResults[configProvider][run.response].error # ""
    ELSE OCRProcessor(run.file).error # ""

\* C16: a failure of an external call is shown once and the call is not repeated:
\* the step in which a run's OCR call or AI call fails ends the run and appends
\* exactly one message, the error message of its handler.
C16_ExternalErrorsShownOnce ==
    [][\A i \in 1..Len(inFlight) :
            (inFlight' = Remove(inFlight, i) /\ CallFails(inFlight[i])) =>
                /\ Len(appended') = 1
                /\ appended'[1] \in {LoadErrorMessage, FailedMessage}]_vars

\* C19: the review cursor is monotonically increasing: no step of the application
\* (a generation, an upload, saving or loading a document set) gives the cursor a
\* value smaller than the one it had.
C19_CursorNeverDecreases == [][spiralIndex' >= spiralIndex]_vars

(***************************************************************************)
(* CalendarTableParser: a day named twice in the header                    *)
(***************************************************************************)
Mon == <<"M", "o", "n">>

\* a full day name, its abbreviation, another day and a subject
DayTexts == {Monday, Mon, Tuesday, Art}

\* a header row in which a day can occur as its full name and as its abbreviation
InitDays ==
    /\ ocrWords \in {h \o c : h \in HeaderRows(DayTexts), c \in ContentRows}
    /\ calendar = NotRun
    /\ NoOthers

SpecDays == InitDays /\ [][NextCalendar]_vars

\* the header words that name day d in full, and those that abbreviate it
FullNameWords(d) ==
    {k \in 1..Len(calendar.headerWords) : Clean(calendar.headerWords[k]) = d}

AbbreviationWords(d) ==
    {k \in 1..Len(calendar.headerWords) :
        Clean(calendar.headerWords[k]) = SubSeq(d, 1, 3)}

\* C21: at most one column is made per day, and when the header holds both the full
\* name and the abbreviation of a day, the column of that day has the position of a
\* full-name word, wherever the two words are.
C21_OneColumnFullNameFirst ==
    HeaderParsed =>
        LET cols == calendar.sortedCols
        IN  /\ \A i, j \in 1..Len(cols) : cols[i].day = cols[j].day => i = j
            /\ \A i \in 1..Len(cols) :
                  (FullNameWords(cols[i].day) # {} /\ AbbreviationWords(cols[i].day) # {}) =>
                      \E k \in FullNameWords(cols[i].day) :
                          /\ cols[i].xMin = calendar.headerWords[k].bbox.x0
                          /\ cols[i].xMax = calendar.headerWords[k].bbox.x1

(***************************************************************************)
(* CalendarTableParser: the week label                                     *)
(***************************************************************************)
Week == <<"W", "e", "e", "k">>

Three == <<"3">>

ThreeDot == <<"3", ".">>

\* a day, the word "Week", a number and a number with a full stop
WeekTexts == {Monday, Week, Three, ThreeDot}

InitWeek ==
    /\ ocrWords \in {h \o c : h \in HeaderRows(WeekTexts), c \in ContentRows}
    /\ calendar = NotRun
    /\ NoOthers

SpecWeek == InitWeek /\ [][NextCalendar]_vars

\* the texts of one or more decimal digits, up to the length of s
IsNumber(s) == s # <<>> /\ \A i \in 1..Len(s) : s[i] \in Digits

\* C22: the returned week is the empty string or "WEEK n", with one space and n the
\* decimal number that follows the word "week" in the input; no other shape is returned.
C22_WeekLabelFormat ==
    Parsed =>
        \/ calendar.week = <<>>
        \/ LET n == SubSeq(calendar.week, Len(WeekPrefix) + 1, Len(calendar.week))
               sorted == SortByY0(ocrWords)
               allText == ToLowerCase(Join([i \in 1..Len(sorted) |-> sorted[i].text], <<" ">>))
           IN  /\ SubSeq(calendar.week, 1, Len(WeekPrefix)) = WeekPrefix
               /\ IsNumber(n)
               /\ \/ Includes(allText, WeekWord \o n)
                  \/ Includes(allText, WeekWord \o <<" ">> \o n)

(***************************************************************************)
(* GetSpiralReviewItems: the recent draw                                   *)
(***************************************************************************)
\* ceil(n / 5)
CeilFifth(n) == CHOOSE k \in 0..n : 5 * k >= n /\ 5 * (k - 1) < n

\* C23: for a non-empty list of length L and every cursor, recent is list[i] for an
\* index i with 0 <= i < ceil(L/5); every such i is an index of the list, and the
\* draws that are possible are the same for every cursor.
C23_RecentFromNewestFifth ==
    (review # NotRun /\ list # <<>>) =>
        LET L == Len(list)
        IN  /\ \E i \in 0..(CeilFifth(L) - 1) : i < L /\ review.recent = list[i + 1]
            /\ \A cursor \in 0..MaxCursor :
                  {GetSpiralReviewItems(list, cursor, r).recent : r \in RecentIndices(list)}
                      = {list[i + 1] : i \in 0..(CeilFifth(L) - 1)}

\* C23 witness: on a list of six sentences and a cursor past 0 the draw was the second
\* sentence, which differs from the first
C23_Witness ==
    /\ review # NotRun
    /\ Len(list) = 6
    /\ currentIndex > 0
    /\ list[1] # list[2]
    /\ review.recent = list[2]

(***************************************************************************)
(* CalendarTableParser: subject words that reach over other columns        *)
(***************************************************************************)
\* the boxes of a subject word that overlaps the boxes of the day words
WideBoxes == << <<0, 320>>, <<20, 70>>, <<10, 200>>, <<60, 90>> >>

\* a header row of day words, with one subject word in a wide box in the same row
InitWide ==
    /\ ocrWords \in
          {h \o <<Word(Science, WideBoxes[b][1], HeaderBand[1], WideBoxes[b][2], HeaderBand[2])>> \o c :
              h \in HeaderRows({Monday, Tuesday}), b \in 1..Len(WideBoxes), c \in ContentRows}
    /\ calendar = NotRun
    /\ NoOthers

SpecWide == InitWide /\ [][NextCalendar]_vars

\* C30: after the subject words have widened the columns and the boundaries are
\* closed, every column has xMin <= xMax and the columns are in ascending x order,
\* also when a subject word is wider than a day column or overlaps one.
C30_ColumnsWellFormed ==
    HeaderParsed =>
        LET cols == calendar.cols
        IN  /\ \A i \in 1..Len(cols) : cols[i].xMin <= cols[i].xMax
            /\ \A i \in 1..(Len(cols) - 1) : cols[i].xMin <= cols[i + 1].xMin

(***************************************************************************)
(* CalendarTableParser of lib/parsers.ts                                   *)
(***************************************************************************)
MaxTextLines == 3

\* the lines of a scan: without a day, with the letters of an abbreviation inside a
\* word, too short to be kept, with an abbreviation, with a day name
ScanLines ==
    { <<"A", "r", "t", " ", "|", " ", "c", "l", "a", "y">>,
      <<"m", "o", "n", "k", "s">>,
      <<" ", "a", "b", " ">>,
      <<"S", "i", "n", "g", ":", " ", "l", "a">>,
      <<"M", "o", "n", " ", "A", "r", "t">>,
      <<"T", "u", "e", "s", "d", "a", "y">> }

InitText ==
    /\ ocrText \in {Join(ls, <<"\n">>) : ls \in SeqsUpTo(ScanLines, MaxTextLines) \ {<<>>}} \cup {<<>>}
    /\ textCalendar = NotRun
    /\ ocrWords = <<>>
    /\ calendar = NotRun
    /\ NoReview /\ NoGame /\ NoMindMap /\ NoTemplate /\ NoApp

\* the parser is run on the text
ParseText ==
    /\ textCalendar = NotRun
    /\ textCalendar' = TextCalendarTableParser(ocrText)
    /\ UNCHANGED <<ocrWords, calendar, ocrText, reviewVars, gameVars, mindMapVars, templateVars, appVars>>

NextText == ParseText

SpecText == InitText /\ [][NextText]_vars

OcrInFlight ==
    \E i \in 1..Len(inFlight) : inFlight[i].handler \in {"handleFileUpload", "handleSendMessage"}

\* C25: once every OCR call has completed, the calendar in the application state is the
\* parse of the calendar upload or paste that was started last, whatever the order in
\* which the calls completed
C25_LastStartedCalendarWins ==
    (~OcrInFlight /\ lastStarted # Null /\ lastStarted.readable)
        => files.calendar = CalendarSlots[OCRProcessor(lastStarted).data]

\* a hydrated session in which any of the documents and the API key may be missing
InitGuards ==
    /\ files \in [mindMap : {Null} \cup {MindMapSlots[file] : file \in MindMapFiles},
                  calendar : {Null} \cup {CalendarSlots[ocrData] : ocrData \in CalendarScans},
                  gamesList : {Null} \cup {GamesListSlots[file] : file \in GamesListFiles},
                  spiralReview : {Null}
                                     \cup {SpiralReviewSlots[file] : file \in SpiralReviewFiles},
                  template : {Null} \cup TemplateFiles]
    /\ apiKey \in {<<>>, <<"k">>}
    /\ spiralIndex = 0
    /\ configOpen = FALSE
    /\ appended = <<>>
    /\ inFlight = <<>>
    /\ savedSetNames = <<>>
    /\ isHydrated = TRUE
    /\ hydration = "done"
    /\ lastStarted = Null
    /\ NoAi
    /\ idb = PersistedStore
    /\ returned = NotRun
    /\ NoCalendar /\ NoReview /\ NoGame /\ NoMindMap /\ NoTemplate

\* the generate commands of that session
NextGuards == SetApiKey \/ GenerateLessonPlan \/ FinishGeneration

SpecGuards == InitGuards /\ [][NextGuards]_vars

\* the runs of generateLessonPlan that await the AI call
GenerationRuns(runs) == {i \in 1..Len(runs) : runs[i].handler = "generateLessonPlan"}

\* the step invokes the AI collaborator: a run of generateLessonPlan is added
AiInvoked == Cardinality(GenerationRuns(inFlight')) > Cardinality(GenerationRuns(inFlight))

\* the step appends the message of one of the guards of generateLessonPlan
GuardRejects ==
    \E k \in 1..Len(appended') :
        appended'[k] \in {MissingFilesMessage, MissingKeyMessage, NoScheduleMessage}

\* C27: a step invokes the AI collaborator at most once, and only with the five
\* documents present, a non-empty API key and a record of the target day in the
\* calendar; the Success message is appended only by a run whose AI call returned and
\* whose template was filled; a step rejected by a guard starts no run and calls neither
\* the AI collaborator nor the template processor
C27_GenerationOrdering ==
    [][/\ AiInvoked =>
            /\ inFlight' = Append(inFlight, inFlight'[Len(inFlight')])
            /\ \A type \in FileTypes : files[type] # Null
            /\ apiKey # <<>>
            /\ inFlight'[Len(inFlight')].targetDay \in DOMAIN files.calendar.data
            /\ ~GuardRejects
       /\ (\E k \in 1..Len(appended') : appended'[k] = SuccessMessage) =>
            \E i \in GenerationRuns(inFlight) :
                /\ inFlight' = Remove(inFlight, i)
                /\ SynthResults[configProvider][inFlight[i].response].error = ""
                /\ "error" \notin DOMAIN TemplateResults[inFlight[i].template]
       /\ GuardRejects =>
            /\ inFlight' = inFlight
            /\ UNCHANGED functionVars]_vars

\* a generate command passed the guards, its AI call returned and its template was
\* filled, while a second run still awaits the AI call
C27_Witness ==
    /\ \A type \in FileTypes : files[type] # Null
    /\ apiKey # <<>>
    /\ GenerationRuns(inFlight) # {}
    /\ appended = <<SuccessMessage>>

\* the uploads of a hydrated session in which any of the documents may be missing
NextUploads ==
    \/ UploadTemplate \/ UploadMindMap \/ UploadGamesList \/ UploadSpiralReview
    \/ UploadFails
    \/ UploadCalendar \/ FinishUpload

SpecUploads == InitGuards /\ [][NextUploads]_vars

\* C29: a step in which an upload succeeds changes at most one slot of the uploaded
\* documents and leaves the review cursor as it was; a step in which an upload fails
\* changes no slot and appends the error message and nothing else
C29_UploadFrame ==
    [][/\ appended' = <<LoadedMessage>> =>
            /\ \E type \in FileTypes : \A other \in FileTypes \ {type} :
                    files'[other] = files[other]
            /\ spiralIndex' = spiralIndex
       /\ (\E k \in 1..Len(appended') : appended'[k] = LoadErrorMessage) =>
            /\ files' = files
            /\ spiralIndex' = spiralIndex
            /\ appended' = <<LoadErrorMessage>>]_vars

\* an upload has succeeded in a session in which a calendar upload has completed: the
\* five documents are present, the calendar is the parse of the uploaded image and the
\* documents have been saved
C29_Witness ==
    /\ appended = <<LoadedMessage>>
    /\ lastStarted # Null
    /\ lastStarted.readable
    /\ inFlight = <<>>
    /\ \A type \in FileTypes : files[type] # Null
    /\ files.calendar = CalendarSlots[OCRProcessor(lastStarted).data]
    /\ idb["app_files"] = [value |-> files]

\* documents saved before the wrappers were introduced, held as their entries
LegacyMindMaps == {[entries |-> MindMapSlots[file].data] : file \in MindMapFiles}

LegacyCalendars == {[entries |-> CalendarSlots[ocrData].data] : ocrData \in CalendarScans}

\* the documents a store may hold under app_files
StoredFiles ==
    [mindMap : {Null} \cup LegacyMindMaps \cup {MindMapSlots[file] : file \in MindMapFiles},
     calendar : {Null} \cup LegacyCalendars
                    \cup {CalendarSlots[ocrData] : ocrData \in CalendarScans},
     gamesList : {Null},
     spiralReview : {Null},
     template : {Null}]

\* the stores an earlier session may have left
StoredStates ==
    {[key \in StoreKeys |->
        IF key = "app_files" THEN stored.files
        ELSE IF key = "app_config" THEN stored.config
        ELSE IF key = "app_spiral_index" THEN stored.index
        ELSE IF key = "app_messages" THEN stored.messages
        ELSE Undefined] :
     stored \in [files : {Undefined} \cup {[value |-> saved] : saved \in StoredFiles},
                 config : {Undefined, [value |-> [apiKey |-> <<"k">>, provider |-> "gemini"]]},
                 index : {Undefined, [value |-> 1]},
                 messages : {Undefined, [value |-> [tail |-> <<LoadedMessage>>]]}]}

\* the application is constructed over such a store
InitStored ==
    /\ NoSession
    /\ NoAi
    /\ idb \in StoredStates
    /\ returned = NotRun
    /\ NoCalendar /\ NoReview /\ NoGame /\ NoMindMap /\ NoTemplate

\* hydration, with the API key edited and a template uploaded at any time after the
\* first render
NextHydration ==
    \/ Mount \/ LoadFiles \/ LoadConfig \/ LoadSpiralIndex \/ LoadMessages \/ FinishHydration
    \/ SetApiKey \/ UploadTemplate

SpecHydration == InitStored /\ [][NextHydration]_vars

\* the mind map or the calendar is null or in the current shape
CurrentShape(slot) == slot = Null \/ "data" \in DOMAIN slot

LoadsFinished == hydration \in {"listSets", "done"}

\* the step writes none of the four keys while a load of initPersistence is pending
NoWriteBeforeLoaded == ~LoadsFinished => \A key \in AppKeys : idb'[key] = idb[key]

\* the step leaves no stored document replaced by the null of the initial state
NoDefaultOverStored ==
    (idb["app_files"] # Undefined /\ idb'["app_files"] # Undefined) =>
        \A type \in FileTypes :
            idb["app_files"].value[type] # Null => idb'["app_files"].value[type] # Null

\* C26: no step writes one of the keys app_files, app_config, app_spiral_index and
\* app_messages before the initial loads of the four keys have finished, and no write
\* replaces a document the store held by the null of the initial state
C26_NoPersistenceBeforeHydration == [][NoWriteBeforeLoaded /\ NoDefaultOverStored]_vars

====
